---- MODULE Spec2Model ----
(***************************************************************************)
(* A model of three leaf adapters of the provider:                         *)
(*   - the SageMaker Workforce resource (internal/service/sagemaker/       *)
(*     workforce.go): CRUD callbacks and expand/flatten mappings;          *)
(*   - the S3 tag helpers (internal/service/s3/tags.go);                   *)
(*   - the S3 object data source (dataSourceObjectRead and                 *)
(*     isContentTypeAllowed);                                              *)
(*   - the EFS file system data source, as its acceptance tests            *)
(*     (internal/service/efs/file_system_data_source_test.go) exercise it. *)
(* The orchestrating framework runs at most one operation per resource     *)
(* address at a time; the variable "resource" names the address a          *)
(* behaviour is about, and AWS (the environment) may change the remote     *)
(* object between any two steps of a callback.                             *)
(***************************************************************************)
EXTENDS Integers, Sequences, FiniteSets, TLC

VARIABLES
    resource,     \* the resource address this behaviour exercises
    \* ---- expand/flatten round trip
    rtBlock,      \* the block being mapped and how far: [name, phase]
    rtInput,      \* the attribute list handed to expand
    rtApi,        \* the API structure expand produced
    rtOutput,     \* the attribute list flatten produced from rtApi
    rtSecret,     \* the clientSecret argument of flattenWorkforceOIDCConfig
    \* ---- SageMaker Workforce resource
    remote,       \* the account's Workforce in AWS: Nil or Ptr(workforce)
    dId,          \* d.Id(): "" when the resource has no id
    dNew,         \* d.IsNewResource()
    dState,       \* the attributes of the prior state (d.HasChange compares to it)
    dAttrs,       \* the attributes d.Get reads and d.Set writes
    wfOp,         \* the callback running or last run: [name, pc, diags]
    wfCalls,      \* the AWS calls and waiters of that callback, with outcomes
    wfRequest,    \* the Create/UpdateWorkforce input of that callback, if sent
    wfResponse,   \* the Workforce FindWorkforceByName returned to that callback
    wfBefore,     \* dAttrs as resourceWorkforceRead found them
    wfCount,      \* callbacks started so far
    envCount,     \* out-of-band changes of the remote Workforce so far
    \* ---- S3 tag helpers
    remoteTags,   \* the tag set of the bucket or object in S3: <<key, value>> pairs
    objVisible,   \* GetObjectTagging finds the object (no NoSuchKey)
    tgOp,         \* the helper running or last run: [fn, pc, err]
    tgOld,        \* oldTagsMap of an update
    tgNew,        \* newTagsMap of an update
    tgListed,     \* what the listing returned: [tags, err]
    tgPlan,       \* the mutating calls an update still has to issue
    tgCalls,      \* the S3 calls of that helper, with outcomes
    tgPolls,      \* retries of GetObjectTagging so far
    tgCount,      \* helper calls started so far
    tgPrev,       \* the helper call before this one: [fn, err, remote], remote being
                  \* the tag set in S3 when this call started
    tgEnv,        \* out-of-band tag changes so far
    \* ---- S3 object data source
    odConfig,     \* the configuration: bucket, key, version_id, ignored tag keys
    odVersioned,  \* the bucket has versioning enabled
    odVersions,   \* the versions of the object in S3, the current one last
    odOp,         \* dataSourceObjectRead's position and result: [pc, diags]
    odHead,       \* the HeadObject output it received
    odGetInput,   \* the GetObjectInput it built
    odAttrs,      \* the id and attributes it stored
    odCalls,      \* its S3 calls, with outcomes
    odWrites,     \* overwrites of the object by others so far
    \* ---- content type allow-list
    ctDone,       \* isContentTypeAllowed has been called
    ctInput,      \* its *string argument: <<>> is nil, <<s>> points to s
    ctResult,     \* its result
    \* ---- EFS file system data source
    efsRemote,    \* the account's file systems in EFS
    efsConfig,    \* the data source's configuration: file_system_id, creation_token, tags
    efsOp,        \* the read's position and result: [pc, diags]
    efsListed,    \* the file systems DescribeFileSystems returned to it
    efsAttrs      \* the file system it stored: Nil or Ptr(file system)

rtVars == <<rtBlock, rtInput, rtApi, rtOutput, rtSecret>>
ctVars == <<ctDone, ctInput, ctResult>>
wfVars == <<remote, dId, dNew, dState, dAttrs, wfOp, wfCalls, wfRequest,
            wfResponse, wfBefore, wfCount, envCount>>
tgVars == <<remoteTags, objVisible, tgOp, tgOld, tgNew, tgListed, tgPlan, tgCalls,
            tgPolls, tgCount, tgPrev, tgEnv>>
odVars == <<odConfig, odVersioned, odVersions, odOp, odHead, odGetInput, odAttrs,
            odCalls, odWrites>>
efsVars == <<efsRemote, efsConfig, efsOp, efsListed, efsAttrs>>
vars == <<resource, rtVars, ctVars, wfVars, tgVars, odVars, efsVars>>

(***************************************************************************)
(* Go values.  A pointer is a sequence of length 0 (nil) or 1; a list of   *)
(* at most one block is a sequence of length 0 or 1; a nil list element    *)
(* (an empty block) is NilElem.                                            *)
(***************************************************************************)
Nil == <<>>
Ptr(v) == <<v>>
NilElem == [nil |-> TRUE]

\* aws.String
awsString(s) == Ptr(s)

\* aws.StringValue: the empty string for a nil pointer
awsStringValue(p) == IF p = Nil THEN "" ELSE p[1]

\* A set of strings as a list in a fixed order (schema.Set.List()).
RECURSIVE SetList(_)
SetList(S) ==
    IF S = {} THEN <<>>
    ELSE LET x == CHOOSE y \in S : TRUE
         IN  <<x>> \o SetList(S \ {x})

\* flex.ExpandStringSet: *schema.Set -> []*string
flexExpandStringSet(S) == [i \in 1..Len(SetList(S)) |-> awsString(SetList(S)[i])]

\* flex.FlattenStringSet: []*string -> *schema.Set
flexFlattenStringSet(l) == {awsStringValue(l[i]) : i \in 1..Len(l)}

(***************************************************************************)
(* workforce.go: expand* (attribute list -> request structure) and         *)
(* flatten* (response structure -> attribute list).                        *)
(***************************************************************************)
expandWorkforceSourceIPConfig(l) ==
    IF Len(l) = 0 \/ l[1] = NilElem THEN Nil
    ELSE Ptr([Cidrs |-> flexExpandStringSet(l[1].cidrs)])

flattenWorkforceSourceIPConfig(config) ==
    IF config = Nil THEN <<>>
    ELSE <<[cidrs |-> flexFlattenStringSet(config[1].Cidrs)]>>

expandWorkforceCognitoConfig(l) ==
    IF Len(l) = 0 \/ l[1] = NilElem THEN Nil
    ELSE Ptr([ClientId |-> awsString(l[1].client_id),
              UserPool |-> awsString(l[1].user_pool)])

\* Mutant: the two fields are read from each other's source.
flattenWorkforceCognitoConfig_swapped(config) ==
    IF config = Nil THEN <<>>
    ELSE <<[client_id |-> awsStringValue(config[1].UserPool),
            user_pool |-> awsStringValue(config[1].ClientId)]>>

flattenWorkforceCognitoConfig(config) ==
    IF config = Nil THEN <<>>
    ELSE <<[client_id |-> awsStringValue(config[1].ClientId),
            user_pool |-> awsStringValue(config[1].UserPool)]>>

expandWorkforceOIDCConfig(l) ==
    IF Len(l) = 0 \/ l[1] = NilElem THEN Nil
    ELSE Ptr([AuthorizationEndpoint |-> awsString(l[1].authorization_endpoint),
              ClientId              |-> awsString(l[1].client_id),
              ClientSecret          |-> awsString(l[1].client_secret),
              Issuer                |-> awsString(l[1].issuer),
              JwksUri               |-> awsString(l[1].jwks_uri),
              LogoutEndpoint        |-> awsString(l[1].logout_endpoint),
              TokenEndpoint         |-> awsString(l[1].token_endpoint),
              UserInfoEndpoint      |-> awsString(l[1].user_info_endpoint)])

\* Mutant: the secret of the state is not carried over.
flattenWorkforceOIDCConfig_dropsSecret(config, clientSecret) ==
    IF config = Nil THEN <<>>
    ELSE <<[authorization_endpoint |-> awsStringValue(config[1].AuthorizationEndpoint),
            client_id              |-> awsStringValue(config[1].ClientId),
            client_secret          |-> "",
            issuer                 |-> awsStringValue(config[1].Issuer),
            jwks_uri               |-> awsStringValue(config[1].JwksUri),
            logout_endpoint        |-> awsStringValue(config[1].LogoutEndpoint),
            token_endpoint         |-> awsStringValue(config[1].TokenEndpoint),
            user_info_endpoint     |-> awsStringValue(config[1].UserInfoEndpoint)]>>

flattenWorkforceOIDCConfig(config, clientSecret) ==
    IF config = Nil THEN <<>>
    ELSE <<[authorization_endpoint |-> awsStringValue(config[1].AuthorizationEndpoint),
            client_id              |-> awsStringValue(config[1].ClientId),
            client_secret          |-> clientSecret,
            issuer                 |-> awsStringValue(config[1].Issuer),
            jwks_uri               |-> awsStringValue(config[1].JwksUri),
            logout_endpoint        |-> awsStringValue(config[1].LogoutEndpoint),
            token_endpoint         |-> awsStringValue(config[1].TokenEndpoint),
            user_info_endpoint     |-> awsStringValue(config[1].UserInfoEndpoint)]>>

\* An absent or empty block expands to an empty request structure, not nil.
EmptyVpcConfigRequest == [SecurityGroupIds |-> <<>>, Subnets |-> <<>>, VpcId |-> Nil]

expandWorkforceVPCConfig(l) ==
    IF Len(l) = 0 \/ l[1] = NilElem THEN Ptr(EmptyVpcConfigRequest)
    ELSE Ptr([SecurityGroupIds |-> flexExpandStringSet(l[1].security_group_ids),
              Subnets          |-> flexExpandStringSet(l[1].subnets),
              VpcId            |-> awsString(l[1].vpc_id)])

flattenWorkforceVPCConfig(config) ==
    IF config = Nil THEN <<>>
    ELSE <<[security_group_ids |-> flexFlattenStringSet(config[1].SecurityGroupIds),
            subnets            |-> flexFlattenStringSet(config[1].Subnets),
            vpc_endpoint_id    |-> awsStringValue(config[1].VpcEndpointId),
            vpc_id             |-> awsStringValue(config[1].VpcId)]>>

(***************************************************************************)
(* The API's two shapes of one structure.  OidcConfigForResponse has every *)
(* field of OidcConfig but ClientSecret; WorkforceVpcConfigResponse has    *)
(* every field of WorkforceVpcConfigRequest and VpcEndpointId.  These      *)
(* carry a request structure over to the response type, field for field,   *)
(* with nothing added.                                                     *)
(***************************************************************************)
OidcAsResponse(config) ==
    IF config = Nil THEN Nil
    ELSE Ptr([AuthorizationEndpoint |-> config[1].AuthorizationEndpoint,
              ClientId              |-> config[1].ClientId,
              Issuer                |-> config[1].Issuer,
              JwksUri               |-> config[1].JwksUri,
              LogoutEndpoint        |-> config[1].LogoutEndpoint,
              TokenEndpoint         |-> config[1].TokenEndpoint,
              UserInfoEndpoint      |-> config[1].UserInfoEndpoint])

VpcAsResponse(config, endpoint) ==
    IF config = Nil THEN Nil
    ELSE Ptr([SecurityGroupIds |-> config[1].SecurityGroupIds,
              Subnets          |-> config[1].Subnets,
              VpcEndpointId    |-> endpoint,
              VpcId            |-> config[1].VpcId])

(***************************************************************************)
(* isContentTypeAllowed.  Each pattern of allowedContentTypes is either    *)
(* ^literal$ (Go's $ without the m flag matches at the end of the text     *)
(* only) or ^text/.+ (Go's . without the s flag matches any character but  *)
(* a line feed; the pattern is not anchored at the end).                   *)
(***************************************************************************)
Exact(lit) == [anchoredEnd |-> TRUE, literal |-> lit]
PrefixThenAny(lit) == [anchoredEnd |-> FALSE, literal |-> lit]

allowedContentTypes ==
    << Exact("application/atom+xml"),
       Exact("application/json"),
       Exact("application/ld+json"),
       Exact("application/x-csh"),
       Exact("application/x-httpd-php"),
       Exact("application/x-sh"),
       Exact("application/xhtml+xml"),
       Exact("application/xml"),
       PrefixThenAny("text/") >>

\* Mutant: the literal patterns lose their end anchor.
MatchString_noEndAnchor(r, s) ==
    LET n == Len(r.literal)
    IN  IF r.anchoredEnd THEN Len(s) >= n /\ SubSeq(s, 1, n) = r.literal
        ELSE /\ Len(s) >= n + 1
             /\ SubSeq(s, 1, n) = r.literal
             /\ SubSeq(s, n + 1, n + 1) # "\n"

\* regexp.MatchString for the two pattern shapes above
MatchString(r, s) ==
    IF r.anchoredEnd THEN s = r.literal
    ELSE LET n == Len(r.literal)
         IN  /\ Len(s) >= n + 1
             /\ SubSeq(s, 1, n) = r.literal
             /\ SubSeq(s, n + 1, n + 1) # "\n"

isContentTypeAllowed(contentType) ==
    IF contentType = Nil THEN FALSE
    ELSE \E i \in 1..Len(allowedContentTypes) :
             MatchString(allowedContentTypes[i], contentType[1])

(***************************************************************************)
(* Bounds and input domains.                                               *)
(***************************************************************************)
MaxCidrs == 2         \* distinct CIDR values a source_ip_config may draw from
MaxSuffixLen == 2     \* characters appended to a content-type stem

Cidr(i) == "10." \o ToString(i) \o ".0.0/16"
CidrSets == SUBSET {Cidr(i) : i \in 1..MaxCidrs}

Secrets == {"secret-1", "secret-2"}
OidcProviders == {"idp-a", "idp-b"}

OidcBlock(p, secret) ==
    [authorization_endpoint |-> "https://" \o p \o "/authorize",
     client_id              |-> p \o "-client",
     client_secret          |-> secret,
     issuer                 |-> "https://" \o p,
     jwks_uri               |-> "https://" \o p \o "/jwks",
     logout_endpoint        |-> "https://" \o p \o "/logout",
     token_endpoint         |-> "https://" \o p \o "/token",
     user_info_endpoint     |-> "https://" \o p \o "/userinfo"]

CognitoBlocks ==
    {[client_id |-> c, user_pool |-> u] :
        c \in {"client-1", "client-2"}, u \in {"pool-1", "pool-2"}}
OidcBlocks == {OidcBlock(p, s) : p \in OidcProviders, s \in Secrets}
SourceIPBlocks == {[cidrs |-> S] : S \in CidrSets}
VPCBlocks ==
    {[security_group_ids |-> g, subnets |-> n, vpc_endpoint_id |-> e, vpc_id |-> v] :
        g \in SUBSET {"sg-1", "sg-2"}, n \in SUBSET {"subnet-1"},
        e \in {"", "vpce-1"}, v \in {"", "vpc-1"}}

\* A list of zero or one block.
ListOf(blocks) == {<<>>} \cup {<<b>> : b \in blocks}

\* The valid inputs of each block.  Every field of cognito_config,
\* oidc_config and source_ip_config is Required, so a block of theirs is
\* never empty; every field of workforce_vpc_config is optional or computed,
\* so "workforce_vpc_config {}" is a valid input whose element is nil.
ValidInputs(block) ==
    CASE block = "cognito_config"       -> ListOf(CognitoBlocks)
      [] block = "oidc_config"          -> ListOf(OidcBlocks)
      [] block = "source_ip_config"     -> ListOf(SourceIPBlocks)
      [] block = "workforce_vpc_config" -> ListOf(VPCBlocks \cup {NilElem})

Blocks == {"cognito_config", "oidc_config", "source_ip_config", "workforce_vpc_config"}

\* Content types: a stem followed by up to MaxSuffixLen characters.
ContentTypeStems ==
    {"", "text", "text/", "TEXT/", " text/", "image/png", "application/",
     "application/atom+xml", "application/json", "application/ld+json",
     "application/x-csh", "application/x-httpd-php", "application/x-sh",
     "application/xhtml+xml", "application/xml", "application/octet-stream"}
SuffixChars == {"x", "/", "\n"}

RECURSIVE Suffixes(_)
Suffixes(n) ==
    IF n = 0 THEN {""}
    ELSE Suffixes(n - 1) \cup {s \o c : s \in Suffixes(n - 1), c \in SuffixChars}

ContentTypes == {stem \o suffix : stem \in ContentTypeStems, suffix \in Suffixes(MaxSuffixLen)}

(***************************************************************************)
(* Round trip of one block through expand and flatten.                     *)
(***************************************************************************)
expand(block, l) ==
    CASE block = "cognito_config"       -> expandWorkforceCognitoConfig(l)
      [] block = "oidc_config"          -> expandWorkforceOIDCConfig(l)
      [] block = "source_ip_config"     -> expandWorkforceSourceIPConfig(l)
      [] block = "workforce_vpc_config" -> expandWorkforceVPCConfig(l)

\* flatten of the response structure that carries exactly the fields of the
\* request structure
flattenOfRequest(block, api, clientSecret) ==
    CASE block = "cognito_config"       -> flattenWorkforceCognitoConfig(api)
      [] block = "oidc_config"          ->
            flattenWorkforceOIDCConfig(OidcAsResponse(api), clientSecret)
      [] block = "source_ip_config"     -> flattenWorkforceSourceIPConfig(api)
      [] block = "workforce_vpc_config" ->
            flattenWorkforceVPCConfig(VpcAsResponse(api, Nil))

RoundTripExpand ==
    /\ resource = "mapping"
    /\ rtBlock.phase = "idle"
    /\ \E block \in Blocks : \E l \in ValidInputs(block) :
          /\ rtBlock' = [name |-> block, phase |-> "expanded"]
          /\ rtInput' = l
          /\ rtApi' = expand(block, l)
    /\ UNCHANGED <<resource, efsVars, rtOutput, rtSecret, ctVars, wfVars, tgVars, odVars>>

RoundTripFlatten ==
    /\ resource = "mapping"
    /\ rtBlock.phase = "expanded"
    /\ \E secret \in Secrets :
          /\ rtSecret' = secret
          /\ rtOutput' = flattenOfRequest(rtBlock.name, rtApi, secret)
    /\ rtBlock' = [rtBlock EXCEPT !.phase = "flattened"]
    /\ UNCHANGED <<resource, efsVars, rtInput, rtApi, ctVars, wfVars, tgVars, odVars>>

ContentTypeCheck ==
    /\ resource = "content_type"
    /\ ~ctDone
    /\ \E ct \in {Nil} \cup {Ptr(s) : s \in ContentTypes} :
          /\ ctInput' = ct
          /\ ctResult' = isContentTypeAllowed(ct)
    /\ ctDone' = TRUE
    /\ UNCHANGED <<resource, efsVars, rtVars, wfVars, tgVars, odVars>>

(***************************************************************************)
(* The SageMaker Workforce resource.                                       *)
(***************************************************************************)
MaxCallbacks == 3     \* callbacks the framework starts in one behaviour
MaxEnvChanges == 1    \* out-of-band changes of the remote Workforce

WorkforceNames == {"wf-a", "wf-b"}

EmptyAttrs ==
    [arn |-> "", subdomain |-> "", workforce_name |-> "",
     cognito_config |-> <<>>, oidc_config |-> <<>>,
     source_ip_config |-> <<>>, workforce_vpc_config |-> <<>>]

\* Configurations the schema accepts: workforce_name is Required, exactly one
\* of cognito_config and oidc_config is set (ExactlyOneOf), source_ip_config
\* and workforce_vpc_config are optional.
WfCognitoLists == {<<[client_id |-> "client-1", user_pool |-> "pool-1"]>>}
WfOidcLists ==
    {<<OidcBlock("idp-a", "secret-1")>>, <<OidcBlock("idp-a", "secret-2")>>,
     <<OidcBlock("idp-b", "secret-1")>>}
WfSourceIPLists == {<<>>, <<[cidrs |-> {Cidr(1)}]>>}
WfVPCLists ==
    {<<>>,
     <<[security_group_ids |-> {"sg-1"}, subnets |-> {"subnet-1"},
        vpc_endpoint_id |-> "", vpc_id |-> "vpc-1"]>>}

ValidConfigs ==
    {cfg \in [arn : {""}, subdomain : {""}, workforce_name : WorkforceNames,
              cognito_config : WfCognitoLists \cup {<<>>},
              oidc_config : WfOidcLists \cup {<<>>},
              source_ip_config : WfSourceIPLists,
              workforce_vpc_config : WfVPCLists] :
        (cfg.cognito_config = <<>>) # (cfg.oidc_config = <<>>)}

\* d.GetOk of a list attribute: ok when the list is not empty
GetOk(attrs, key) == Len(attrs[key]) > 0

\* d.HasChange
HasChange(state, attrs, key) == state[key] # attrs[key]

\* d.Get("oidc_config.0.client_secret").(string): the zero value when absent
GetClientSecret(attrs) ==
    IF Len(attrs.oidc_config) = 0 \/ attrs.oidc_config[1] = NilElem THEN ""
    ELSE attrs.oidc_config[1].client_secret

\* Mutant: the oidc block is guarded by the presence of the cognito block.
createWorkforceInput_wrongGuard(attrs) ==
    [WorkforceName      |-> awsString(attrs.workforce_name),
     CognitoConfig      |-> IF GetOk(attrs, "cognito_config")
                            THEN expandWorkforceCognitoConfig(attrs.cognito_config)
                            ELSE Nil,
     OidcConfig         |-> IF GetOk(attrs, "cognito_config")
                            THEN expandWorkforceOIDCConfig(attrs.oidc_config)
                            ELSE Nil,
     SourceIpConfig     |-> IF GetOk(attrs, "source_ip_config")
                            THEN expandWorkforceSourceIPConfig(attrs.source_ip_config)
                            ELSE Nil,
     WorkforceVpcConfig |-> IF GetOk(attrs, "workforce_vpc_config")
                            THEN expandWorkforceVPCConfig(attrs.workforce_vpc_config)
                            ELSE Nil]

\* resourceWorkforceCreate: the CreateWorkforceInput it builds
createWorkforceInput(attrs) ==
    [WorkforceName      |-> awsString(attrs.workforce_name),
     CognitoConfig      |-> IF GetOk(attrs, "cognito_config")
                            THEN expandWorkforceCognitoConfig(attrs.cognito_config)
                            ELSE Nil,
     OidcConfig         |-> IF GetOk(attrs, "oidc_config")
                            THEN expandWorkforceOIDCConfig(attrs.oidc_config)
                            ELSE Nil,
     SourceIpConfig     |-> IF GetOk(attrs, "source_ip_config")
                            THEN expandWorkforceSourceIPConfig(attrs.source_ip_config)
                            ELSE Nil,
     WorkforceVpcConfig |-> IF GetOk(attrs, "workforce_vpc_config")
                            THEN expandWorkforceVPCConfig(attrs.workforce_vpc_config)
                            ELSE Nil]

\* Mutant: OidcConfig is sent whether or not oidc_config changed.
updateWorkforceInput_alwaysOidc(id, state, attrs) ==
    [WorkforceName      |-> awsString(id),
     SourceIpConfig     |-> IF HasChange(state, attrs, "source_ip_config")
                            THEN expandWorkforceSourceIPConfig(attrs.source_ip_config)
                            ELSE Nil,
     OidcConfig         |-> expandWorkforceOIDCConfig(attrs.oidc_config),
     WorkforceVpcConfig |-> IF HasChange(state, attrs, "workforce_vpc_config")
                            THEN expandWorkforceVPCConfig(attrs.workforce_vpc_config)
                            ELSE Nil]

\* resourceWorkforceUpdate: the UpdateWorkforceInput it builds
updateWorkforceInput(id, state, attrs) ==
    [WorkforceName      |-> awsString(id),
     SourceIpConfig     |-> IF HasChange(state, attrs, "source_ip_config")
                            THEN expandWorkforceSourceIPConfig(attrs.source_ip_config)
                            ELSE Nil,
     OidcConfig         |-> IF HasChange(state, attrs, "oidc_config")
                            THEN expandWorkforceOIDCConfig(attrs.oidc_config)
                            ELSE Nil,
     WorkforceVpcConfig |-> IF HasChange(state, attrs, "workforce_vpc_config")
                            THEN expandWorkforceVPCConfig(attrs.workforce_vpc_config)
                            ELSE Nil]

\* resourceWorkforceRead: the d.Set calls after a successful lookup
readWorkforceAttrs(workforce, attrs) ==
    [arn                  |-> awsStringValue(workforce.WorkforceArn),
     subdomain            |-> awsStringValue(workforce.SubDomain),
     workforce_name       |-> awsStringValue(workforce.WorkforceName),
     cognito_config       |-> flattenWorkforceCognitoConfig(workforce.CognitoConfig),
     oidc_config          |-> IF workforce.OidcConfig # Nil
                              THEN flattenWorkforceOIDCConfig(workforce.OidcConfig,
                                                              GetClientSecret(attrs))
                              ELSE attrs.oidc_config,
     source_ip_config     |-> flattenWorkforceSourceIPConfig(workforce.SourceIpConfig),
     workforce_vpc_config |-> flattenWorkforceVPCConfig(workforce.WorkforceVpcConfig)]

(***************************************************************************)
(* AWS's side of the Workforce API.                                        *)
(***************************************************************************)
VpcEndpointFor(vpc) ==
    IF vpc = Nil \/ awsStringValue(vpc[1].VpcId) = "" THEN Nil
    ELSE VpcAsResponse(vpc, awsString("vpce-" \o awsStringValue(vpc[1].VpcId)))

\* The Workforce that exists after CreateWorkforce(input) succeeded.
CreatedWorkforce(input) ==
    [WorkforceName      |-> input.WorkforceName,
     WorkforceArn       |-> awsString("arn:aws:sagemaker:workforce/"
                                      \o awsStringValue(input.WorkforceName)),
     SubDomain          |-> awsString(awsStringValue(input.WorkforceName) \o ".labeling"),
     CognitoConfig      |-> input.CognitoConfig,
     OidcConfig         |-> OidcAsResponse(input.OidcConfig),
     SourceIpConfig     |-> input.SourceIpConfig,
     WorkforceVpcConfig |-> VpcEndpointFor(input.WorkforceVpcConfig)]

\* The Workforce that exists after UpdateWorkforce(input) succeeded on w: a
\* field left unset in the request is left as it was.
UpdatedWorkforce(w, input) ==
    [w EXCEPT
        !.SourceIpConfig = IF input.SourceIpConfig # Nil
                           THEN input.SourceIpConfig ELSE @,
        !.OidcConfig = IF input.OidcConfig # Nil
                       THEN OidcAsResponse(input.OidcConfig) ELSE @,
        !.WorkforceVpcConfig = IF input.WorkforceVpcConfig # Nil
                               THEN VpcEndpointFor(input.WorkforceVpcConfig) ELSE @]

\* Workforces that may appear out of band: someone else's, under the first
\* name, with either auth block.
RemoteWorkforces ==
    {CreatedWorkforce(createWorkforceInput(cfg)) :
        cfg \in {c \in ValidConfigs :
                    /\ c.workforce_name = "wf-a"
                    /\ c.oidc_config \in {<<>>, <<OidcBlock("idp-b", "secret-1")>>}
                    /\ c.source_ip_config = <<>>}}

\* Whether a Workforce of that name exists.
Exists(name) == remote # Nil /\ remote[1].WorkforceName = awsString(name)

(***************************************************************************)
(* The callbacks, one step per AWS call or waiter.  The framework starts a *)
(* callback only when none is running on the resource.                     *)
(***************************************************************************)
Idle == resource = "workforce" /\ wfOp.pc \in {"idle", "done"}
Destroyed == wfOp.name = "delete" /\ wfOp.pc = "done" /\ wfOp.diags = "ok"

Start(name, pc) ==
    /\ wfCount < MaxCallbacks
    /\ wfCount' = wfCount + 1
    /\ wfOp' = [name |-> name, pc |-> pc, diags |-> "none"]
    /\ wfCalls' = <<>>
    /\ wfRequest' = Nil
    /\ wfResponse' = Nil
    /\ wfBefore' = EmptyAttrs

Finish(diags) == wfOp' = [wfOp EXCEPT !.pc = "done", !.diags = diags]

Called(call, outcome) ==
    wfCalls' = Append(wfCalls, [call |-> call, outcome |-> outcome])

\* The framework applies a configuration to a resource that has no state.
BeginCreate ==
    /\ Idle
    /\ dId = "" \/ Destroyed
    /\ Start("create", "call")
    /\ \E cfg \in ValidConfigs : dAttrs' = cfg
    /\ dState' = EmptyAttrs
    /\ dId' = ""
    /\ dNew' = TRUE
    /\ UNCHANGED <<resource, efsVars, remote, envCount, rtVars, ctVars, tgVars, odVars>>

\* The framework refreshes a resource it holds state for.
BeginRead ==
    /\ Idle
    /\ dId # "" /\ ~Destroyed
    /\ Start("read", "read")
    /\ dState' = dAttrs
    /\ dNew' = FALSE
    /\ UNCHANGED <<resource, efsVars, remote, dId, dAttrs, envCount, rtVars, ctVars, tgVars, odVars>>

\* schema.ImportStatePassthroughContext: a state holding the id alone, then
\* a read.
BeginImport ==
    /\ Idle
    /\ dId = "" \/ Destroyed
    /\ Start("read", "read")
    /\ \E name \in WorkforceNames : dId' = name
    /\ dState' = EmptyAttrs
    /\ dAttrs' = EmptyAttrs
    /\ dNew' = FALSE
    /\ UNCHANGED <<resource, efsVars, remote, envCount, rtVars, ctVars, tgVars, odVars>>

\* The plans of an in-place update: workforce_name and cognito_config are
\* ForceNew, and oidc_config stays set when it is the auth block in use.
\* source_ip_config is Optional and Computed: a configuration without the
\* block plans the value of the prior state, so the block is never planned
\* away.  vpc_endpoint_id is Computed: a block that stays keeps it.
UpdatePlans(attrs) ==
    {[attrs EXCEPT !.oidc_config = o, !.source_ip_config = s,
                   !.workforce_vpc_config = v] :
        o \in IF Len(attrs.cognito_config) = 0 THEN WfOidcLists ELSE {attrs.oidc_config},
        s \in (WfSourceIPLists \ {<<>>}) \cup {attrs.source_ip_config},
        v \in IF Len(attrs.workforce_vpc_config) = 0
              THEN WfVPCLists
              ELSE {<<>>, attrs.workforce_vpc_config}}
    \ {attrs}

BeginUpdate ==
    /\ Idle
    /\ dId # "" /\ ~Destroyed
    /\ Start("update", "call")
    /\ \E plan \in UpdatePlans(dAttrs) : dAttrs' = plan
    /\ dState' = dAttrs
    /\ dNew' = FALSE
    /\ UNCHANGED <<resource, efsVars, remote, dId, envCount, rtVars, ctVars, tgVars, odVars>>

\* The framework destroys the resource; a destroy may be repeated for a
\* Workforce that is already gone.
BeginDelete ==
    /\ Idle
    /\ dId # ""
    /\ Start("delete", "call")
    /\ dState' = dAttrs
    /\ dNew' = FALSE
    /\ UNCHANGED <<resource, efsVars, remote, dId, dAttrs, envCount, rtVars, ctVars, tgVars, odVars>>

\* Mutant: the id is not set after CreateWorkforce (left to a later step).
createWorkforceId_notSet(attrs) == ""

\* resourceWorkforceCreate: d.SetId(name)
createWorkforceId(attrs) == attrs.workforce_name

\* resourceWorkforceCreate up to and including CreateWorkforceWithContext
CreateWorkforce ==
    /\ resource = "workforce"
    /\ wfOp.name = "create" /\ wfOp.pc = "call"
    /\ LET input == createWorkforceInput(dAttrs) IN
         \E outcome \in IF remote = Nil THEN {"ok", "error"} ELSE {"error"} :
            /\ wfRequest' = Ptr(input)
            /\ Called("CreateWorkforce", outcome)
            /\ IF outcome = "ok"
               THEN /\ remote' = Ptr(CreatedWorkforce(input))
                    /\ dId' = createWorkforceId(dAttrs)
                    /\ wfOp' = [wfOp EXCEPT !.pc = "wait"]
               ELSE /\ Finish("error")
                    /\ UNCHANGED <<remote, dId>>
    /\ UNCHANGED <<resource, efsVars, dNew, dState, dAttrs, wfResponse, wfBefore,
                   wfCount, envCount, rtVars, ctVars, tgVars, odVars>>

\* resourceWorkforceUpdate up to and including UpdateWorkforceWithContext
UpdateWorkforce ==
    /\ resource = "workforce"
    /\ wfOp.name = "update" /\ wfOp.pc = "call"
    /\ LET input == updateWorkforceInput(dId, dState, dAttrs) IN
         \E outcome \in IF Exists(dId) THEN {"ok", "error"} ELSE {"error"} :
            /\ wfRequest' = Ptr(input)
            /\ Called("UpdateWorkforce", outcome)
            /\ IF outcome = "ok"
               THEN /\ remote' = Ptr(UpdatedWorkforce(remote[1], input))
                    /\ wfOp' = [wfOp EXCEPT !.pc = "wait"]
               ELSE /\ Finish("error")
                    /\ UNCHANGED remote
    /\ UNCHANGED <<resource, efsVars, dId, dNew, dState, dAttrs, wfResponse, wfBefore,
                   wfCount, envCount, rtVars, ctVars, tgVars, odVars>>

\* Mutant: the waiter's error is dropped and the re-read runs anyway.
WaitWorkforceActive_errorIgnored ==
    /\ resource = "workforce"
    /\ wfOp.name \in {"create", "update"} /\ wfOp.pc = "wait"
    /\ \E outcome \in {"ok", "error"} :
          /\ Called("WaitWorkforceActive", outcome)
          /\ wfOp' = [wfOp EXCEPT !.pc = "read"]
    /\ UNCHANGED <<resource, efsVars, remote, dId, dNew, dState, dAttrs, wfRequest,
                   wfResponse, wfBefore, wfCount, envCount, rtVars, ctVars, tgVars, odVars>>

\* WaitWorkforceActive in resourceWorkforceCreate and resourceWorkforceUpdate:
\* the waiter either sees the Workforce active or fails (an error, a timeout).
WaitWorkforceActive ==
    /\ resource = "workforce"
    /\ wfOp.name \in {"create", "update"} /\ wfOp.pc = "wait"
    /\ \E outcome \in {"ok", "error"} :
          /\ Called("WaitWorkforceActive", outcome)
          /\ IF outcome = "ok"
             THEN wfOp' = [wfOp EXCEPT !.pc = "read"]
             ELSE Finish("error")
    /\ UNCHANGED <<resource, efsVars, remote, dId, dNew, dState, dAttrs, wfRequest,
                   wfResponse, wfBefore, wfCount, envCount, rtVars, ctVars, tgVars, odVars>>

\* FindWorkforceByName: DescribeWorkforce answers with the Workforce, with
\* "ValidationException: No workforce" (turned into a NotFound error) when
\* there is none of that name, or with any other error.
FindWorkforceByName(name) ==
    IF Exists(name) THEN {"ok", "error"} ELSE {"NoWorkforce", "error"}

\* Mutant: a missing Workforce is removed from state even when it is new.
resourceWorkforceReadBranch_ignoresIsNew(isNew, outcome) ==
    IF outcome = "NoWorkforce" THEN "remove"
    ELSE IF outcome # "ok" THEN "fail"
    ELSE "set"

\* Mutant: a missing Workforce is an error like any other, new or not.
resourceWorkforceReadBranch_notFoundFails(isNew, outcome) ==
    IF outcome # "ok" THEN "fail" ELSE "set"

\* resourceWorkforceRead: what it does with the lookup's outcome
resourceWorkforceReadBranch(isNew, outcome) ==
    IF ~isNew /\ outcome = "NoWorkforce" THEN "remove"
    ELSE IF outcome # "ok" THEN "fail"
    ELSE "set"

\* resourceWorkforceRead, called by the framework or at the end of create
\* and update
ReadWorkforce ==
    /\ resource = "workforce"
    /\ wfOp.pc = "read"
    /\ \E outcome \in FindWorkforceByName(dId) :
         LET branch == resourceWorkforceReadBranch(dNew, outcome) IN
            /\ Called("DescribeWorkforce", outcome)
            /\ wfBefore' = dAttrs
            /\ CASE branch = "remove" ->
                      /\ dId' = ""
                      /\ Finish("ok")
                      /\ UNCHANGED <<dAttrs, wfResponse>>
                 [] branch = "fail" ->
                      /\ Finish("error")
                      /\ UNCHANGED <<dId, dAttrs, wfResponse>>
                 [] branch = "set" ->
                      /\ wfResponse' = remote
                      /\ dAttrs' = readWorkforceAttrs(remote[1], dAttrs)
                      /\ Finish("ok")
                      /\ UNCHANGED dId
    /\ UNCHANGED <<resource, efsVars, remote, dNew, dState, wfRequest, wfCount,
                   envCount, rtVars, ctVars, tgVars, odVars>>

\* Mutant: "No workforce" is handled like any other error.
resourceWorkforceDeleteBranch_noSpecialCase(outcome) ==
    IF outcome # "ok" THEN "fail" ELSE "wait"

\* resourceWorkforceDelete: what it does with DeleteWorkforce's outcome
resourceWorkforceDeleteBranch(outcome) ==
    IF outcome = "NoWorkforce" THEN "gone"
    ELSE IF outcome # "ok" THEN "fail"
    ELSE "wait"

\* resourceWorkforceDelete up to and including DeleteWorkforceWithContext
DeleteWorkforce ==
    /\ resource = "workforce"
    /\ wfOp.name = "delete" /\ wfOp.pc = "call"
    /\ \E outcome \in IF Exists(dId) THEN {"ok", "error"} ELSE {"NoWorkforce", "error"} :
         LET branch == resourceWorkforceDeleteBranch(outcome) IN
            /\ Called("DeleteWorkforce", outcome)
            /\ remote' = IF outcome = "ok" THEN Nil ELSE remote
            /\ CASE branch = "gone" -> Finish("ok")
                 [] branch = "fail" -> Finish("error")
                 [] branch = "wait" -> wfOp' = [wfOp EXCEPT !.pc = "wait"]
    /\ UNCHANGED <<resource, efsVars, dId, dNew, dState, dAttrs, wfRequest, wfResponse,
                   wfBefore, wfCount, envCount, rtVars, ctVars, tgVars, odVars>>

\* WaitWorkforceDeleted in resourceWorkforceDelete
WaitWorkforceDeleted ==
    /\ resource = "workforce"
    /\ wfOp.name = "delete" /\ wfOp.pc = "wait"
    /\ \E outcome \in {"ok", "error"} :
          /\ Called("WaitWorkforceDeleted", outcome)
          /\ Finish(IF outcome = "ok" THEN "ok" ELSE "error")
    /\ UNCHANGED <<resource, efsVars, remote, dId, dNew, dState, dAttrs, wfRequest,
                   wfResponse, wfBefore, wfCount, envCount, rtVars, ctVars, tgVars, odVars>>

\* Someone else creates, replaces or deletes the account's Workforce.
RemoteChange ==
    /\ resource = "workforce"
    /\ envCount < MaxEnvChanges
    /\ envCount' = envCount + 1
    /\ \E w \in {Nil} \cup {Ptr(x) : x \in RemoteWorkforces} :
          /\ w # remote
          /\ remote' = w
    /\ UNCHANGED <<resource, efsVars, dId, dNew, dState, dAttrs, wfOp, wfCalls, wfRequest,
                   wfResponse, wfBefore, wfCount, rtVars, ctVars, tgVars, odVars>>

WfInit ==
    /\ remote = Nil
    /\ dId = ""
    /\ dNew = FALSE
    /\ dState = EmptyAttrs
    /\ dAttrs = EmptyAttrs
    /\ wfOp = [name |-> "none", pc |-> "idle", diags |-> "none"]
    /\ wfCalls = <<>>
    /\ wfRequest = Nil
    /\ wfResponse = Nil
    /\ wfBefore = EmptyAttrs
    /\ wfCount = 0
    /\ envCount = 0

(***************************************************************************)
(* S3 tag helpers (tags.go).  A KeyValueTags value is [isNil, kv]: isNil   *)
(* tells a nil Go map from an empty one, kv is the set of <<key, value>>   *)
(* pairs, one per key.                                                     *)
(***************************************************************************)
PollsPerMinute == 2   \* GetObjectTagging attempts that fit in the one-minute retry
MaxTagCalls == 2      \* tag helper calls in one behaviour
MaxTagChanges == 1    \* out-of-band changes of the remote tag set

TagPairs == {<<"Name", "v1">>, <<"Name", "v2">>, <<"aws:stack", "v1">>}
Keys(kv) == {p[1] : p \in kv}
TagSets == {kv \in SUBSET TagPairs : Cardinality(Keys(kv)) = Cardinality(kv)}

\* The tag maps of a configuration: AWS reserves the keys that start with
\* "aws:", so those are on the remote side only.
ConfiguredTagSets == {kv \in TagSets : \A p \in kv : p[1] = "Name"}

\* tftags.New(ctx, i): an empty, non-nil map for nil; the map's entries otherwise
tftagsNew(i) == IF i = Nil THEN [isNil |-> FALSE, kv |-> {}]
                ELSE [isNil |-> FALSE, kv |-> i[1]]

\* KeyValueTags.Ignore(ignoreTags): without the keys ignoreTags holds
Ignore(tags, ignoreTags) ==
    [isNil |-> FALSE, kv |-> {p \in tags.kv : p[1] \notin Keys(ignoreTags.kv)}]

\* KeyValueTags.Merge(mergeTags): mergeTags' entries added, same keys overwritten
Merge(tags, mergeTags) ==
    [isNil |-> FALSE,
     kv |-> mergeTags.kv \cup {p \in tags.kv : p[1] \notin Keys(mergeTags.kv)}]

\* KeyValueTags.IgnoreAWS(): without the keys that start with "aws:"
IgnoreAWS(tags) ==
    [isNil |-> FALSE, kv |-> {p \in tags.kv : ~(Len(p[1]) >= 4 /\ SubSeq(p[1], 1, 4) = "aws:")}]

\* KeyValueTags.Map(): a fresh map[string]string, never nil
TagsMap(tags) == [isNil |-> FALSE, kv |-> tags.kv]

\* Tags(KeyValueTags): the []*s3.Tag of a request
RECURSIVE PairList(_)
PairList(kv) ==
    IF kv = {} THEN <<>>
    ELSE LET p == CHOOSE q \in kv : TRUE
         IN  <<[Key |-> awsString(p[1]), Value |-> awsString(p[2])]>> \o PairList(kv \ {p})
Tags(tags) == PairList(tags.kv)

\* KeyValueTags(ctx, []*s3.Tag) and keyValueTagsV2: the map of a response's TagSet
KeyValueTags(tagSet) ==
    [isNil |-> FALSE,
     kv |-> {<<awsStringValue(tagSet[i].Key), awsStringValue(tagSet[i].Value)>> :
                i \in 1..Len(tagSet)}]
keyValueTagsV2(tagSet) == KeyValueTags(tagSet)

errCodeNoSuchTagSet == "NoSuchTagSet"
errCodeNoSuchTagSetError == "NoSuchTagSetError"
ErrCodeNoSuchKey == "NoSuchKey"

\* BucketListTags: what it returns for GetBucketTagging's answer
BucketListTags(err, tagSet) ==
    IF err \in {errCodeNoSuchTagSet, errCodeNoSuchTagSetError}
    THEN [tags |-> tftagsNew(Nil), err |-> "nil"]
    ELSE IF err # "nil" THEN [tags |-> tftagsNew(Nil), err |-> err]
    ELSE [tags |-> KeyValueTags(tagSet), err |-> "nil"]

\* ObjectListTags: what it returns for the retried GetObjectTagging's answer
ObjectListTags(err, tagSet) ==
    IF err \in {errCodeNoSuchTagSet, errCodeNoSuchTagSetError}
    THEN [tags |-> tftagsNew(Nil), err |-> "nil"]
    ELSE IF err # "nil" THEN [tags |-> tftagsNew(Nil), err |-> err]
    ELSE [tags |-> keyValueTagsV2(tagSet), err |-> "nil"]

\* Mutant: "no tag set" is returned as an error.
ObjectListTagsV1_noTagSetIsError(err, tagSet) ==
    IF err # "nil" THEN [tags |-> tftagsNew(Nil), err |-> err]
    ELSE [tags |-> KeyValueTags(tagSet), err |-> "nil"]

\* ObjectListTagsV1: the same on the v1 SDK
ObjectListTagsV1(err, tagSet) ==
    IF err \in {errCodeNoSuchTagSet, errCodeNoSuchTagSetError}
    THEN [tags |-> tftagsNew(Nil), err |-> "nil"]
    ELSE IF err # "nil" THEN [tags |-> tftagsNew(Nil), err |-> err]
    ELSE [tags |-> KeyValueTags(tagSet), err |-> "nil"]

\* tfresource.RetryWhenIsA / RetryWhenAWSErrCodeEquals: the call is made
\* again while it fails with one of the named codes and the timeout has not
\* elapsed
RetryWhenAWSErrCodeEquals(err, polls, timeout, codes) == err \in codes /\ polls < timeout

\* Mutant: GetObjectTagging is retried on every failure.
RetryAgain_anyError(err, polls) ==
    RetryWhenAWSErrCodeEquals(err, polls, PollsPerMinute,
                              {ErrCodeNoSuchKey, errCodeNoSuchTagSet,
                               errCodeNoSuchTagSetError, "AccessDenied"})

\* ObjectListTags and ObjectListTagsV1: GetObjectTagging is retried for one
\* minute while it fails with NoSuchKey
RetryAgain(err, polls) ==
    RetryWhenAWSErrCodeEquals(err, polls, PollsPerMinute, {ErrCodeNoSuchKey})

\* Mutant: the delete is decided independently of the put (no "else").
BucketUpdateTags_noElse(oldTagsMap, newTagsMap, allTags) ==
    LET oldTags == tftagsNew(oldTagsMap)
        newTags == tftagsNew(newTagsMap)
        ignoredTags == Ignore(Ignore(allTags, oldTags), newTags)
    IN  (IF Cardinality(newTags.kv) + Cardinality(ignoredTags.kv) > 0
         THEN <<[call |-> "PutBucketTagging", TagSet |-> Tags(Merge(newTags, ignoredTags))]>>
         ELSE <<>>)
        \o
        (IF Cardinality(oldTags.kv) > 0 /\ Cardinality(ignoredTags.kv) = 0
         THEN <<[call |-> "DeleteBucketTagging", TagSet |-> <<>>]>>
         ELSE <<>>)

\* Mutant: of the new tags, the request carries only those the listing does
\* not show already.
BucketUpdateTags_sendsOnlyMissing(oldTagsMap, newTagsMap, allTags) ==
    LET oldTags == tftagsNew(oldTagsMap)
        newTags == tftagsNew(newTagsMap)
        ignoredTags == Ignore(Ignore(allTags, oldTags), newTags)
        missingTags == [isNil |-> FALSE, kv |-> newTags.kv \ allTags.kv]
    IN  IF Cardinality(missingTags.kv) + Cardinality(ignoredTags.kv) > 0
        THEN <<[call |-> "PutBucketTagging", TagSet |-> Tags(Merge(missingTags, ignoredTags))]>>
        ELSE IF Cardinality(oldTags.kv) > 0 /\ Cardinality(ignoredTags.kv) = 0
        THEN <<[call |-> "DeleteBucketTagging", TagSet |-> <<>>]>>
        ELSE <<>>

\* BucketUpdateTags after the listing: the mutating calls it issues, in order
BucketUpdateTags(oldTagsMap, newTagsMap, allTags) ==
    LET oldTags == tftagsNew(oldTagsMap)
        newTags == tftagsNew(newTagsMap)
        ignoredTags == Ignore(Ignore(allTags, oldTags), newTags)
    IN  IF Cardinality(newTags.kv) + Cardinality(ignoredTags.kv) > 0
        THEN <<[call |-> "PutBucketTagging", TagSet |-> Tags(Merge(newTags, ignoredTags))]>>
        ELSE IF Cardinality(oldTags.kv) > 0 /\ Cardinality(ignoredTags.kv) = 0
        THEN <<[call |-> "DeleteBucketTagging", TagSet |-> <<>>]>>
        ELSE <<>>

\* Mutant: the request carries the new tags without the ignored ones.
ObjectUpdateTags_dropsIgnored(oldTagsMap, newTagsMap, allTags) ==
    LET oldTags == tftagsNew(oldTagsMap)
        newTags == tftagsNew(newTagsMap)
        ignoredTags == Ignore(Ignore(allTags, oldTags), newTags)
    IN  IF Cardinality(newTags.kv) + Cardinality(ignoredTags.kv) > 0
        THEN <<[call |-> "PutObjectTagging", TagSet |-> Tags(newTags)]>>
        ELSE IF Cardinality(oldTags.kv) > 0 /\ Cardinality(ignoredTags.kv) = 0
        THEN <<[call |-> "DeleteObjectTagging", TagSet |-> <<>>]>>
        ELSE <<>>

\* ObjectUpdateTags after the listing: the mutating calls it issues, in order
ObjectUpdateTags(oldTagsMap, newTagsMap, allTags) ==
    LET oldTags == tftagsNew(oldTagsMap)
        newTags == tftagsNew(newTagsMap)
        ignoredTags == Ignore(Ignore(allTags, oldTags), newTags)
    IN  IF Cardinality(newTags.kv) + Cardinality(ignoredTags.kv) > 0
        THEN <<[call |-> "PutObjectTagging", TagSet |-> Tags(Merge(newTags, ignoredTags))]>>
        ELSE IF Cardinality(oldTags.kv) > 0 /\ Cardinality(ignoredTags.kv) = 0
        THEN <<[call |-> "DeleteObjectTagging", TagSet |-> <<>>]>>
        ELSE <<>>

(***************************************************************************)
(* S3's side of the tagging API.                                           *)
(***************************************************************************)
\* The answers Get*Tagging may give: NoSuchKey while the object is not yet
\* visible, the "no tag set" codes or an empty TagSet when there are no tags,
\* the TagSet otherwise; any call may fail with another error.
GetTaggingAnswers(isObject) ==
    IF isObject /\ ~objVisible THEN {ErrCodeNoSuchKey, "AccessDenied"}
    ELSE IF remoteTags = {}
         THEN {"nil", errCodeNoSuchTagSet, errCodeNoSuchTagSetError, "AccessDenied"}
         ELSE {"nil", "AccessDenied"}

\* The TagSet of a successful answer.
RemoteTagSet == PairList(remoteTags)

\* The remote tag set after a successful Put*Tagging or Delete*Tagging.
AfterTagging(c) ==
    IF c.call \in {"PutBucketTagging", "PutObjectTagging"}
    THEN {<<c.TagSet[i].Key[1], c.TagSet[i].Value[1]>> : i \in 1..Len(c.TagSet)}
    ELSE {}

(***************************************************************************)
(* Calls of the tag helpers, one step per AWS call.                        *)
(***************************************************************************)
\* The addresses whose callers use the tag helpers: a bucket, an object,
\* and an object whose caller only lists.
TagResources == {"bucket_tags", "object_tags", "object_listing"}

IsObjectFn(fn) == fn \in {"ObjectListTags", "ObjectListTagsV1", "ObjectUpdateTags"}
TagFns ==
    IF resource = "bucket_tags" THEN {"BucketListTags", "BucketUpdateTags"}
    ELSE IF resource = "object_listing" THEN {"ObjectListTags", "ObjectListTagsV1"}
    ELSE {"ObjectListTags", "ObjectListTagsV1", "ObjectUpdateTags"}
IsUpdateFn(fn) == fn \in {"BucketUpdateTags", "ObjectUpdateTags"}

TagsCalled(call, outcome) ==
    tgCalls' = Append(tgCalls, [call |-> call, outcome |-> outcome])

\* A caller invokes one of the helpers on the bucket or object.  An update
\* that follows another one applies the same old and new tags again.
BeginTagCall ==
    /\ resource \in TagResources
    /\ tgOp.pc \in {"idle", "done"}
    /\ tgCount < MaxTagCalls
    /\ tgCount' = tgCount + 1
    /\ tgPrev' = [fn |-> tgOp.fn, err |-> tgOp.err, remote |-> remoteTags]
    /\ \E fn \in TagFns :
          /\ tgOp' = [fn |-> fn, pc |-> "list", err |-> "nil"]
          /\ IF IsUpdateFn(fn) /\ tgOld = Nil
             THEN \E o \in ConfiguredTagSets, n \in ConfiguredTagSets :
                     /\ tgOld' = Ptr(o)
                     /\ tgNew' = Ptr(n)
             ELSE UNCHANGED <<tgOld, tgNew>>
    /\ tgListed' = [tags |-> [isNil |-> TRUE, kv |-> {}], err |-> "nil"]
    /\ tgPlan' = <<>>
    /\ tgCalls' = <<>>
    /\ tgPolls' = 0
    /\ UNCHANGED <<resource, efsVars, remoteTags, objVisible, tgEnv, rtVars, ctVars, wfVars, odVars>>

\* The listing of a helper: BucketListTags, ObjectListTags, ObjectListTagsV1,
\* or the listing BucketUpdateTags and ObjectUpdateTags start with.  One
\* step is one Get*Tagging call.
ListTagsStep ==
    /\ resource \in TagResources
    /\ tgOp.pc = "list"
    /\ \E err \in GetTaggingAnswers(IsObjectFn(tgOp.fn)) :
         LET call == IF IsObjectFn(tgOp.fn) THEN "GetObjectTagging" ELSE "GetBucketTagging"
             listed == CASE tgOp.fn \in {"BucketListTags", "BucketUpdateTags"} ->
                                BucketListTags(err, RemoteTagSet)
                         [] tgOp.fn = "ObjectListTags" -> ObjectListTags(err, RemoteTagSet)
                         [] OTHER -> ObjectListTagsV1(err, RemoteTagSet)
             plan == IF tgOp.fn = "BucketUpdateTags"
                     THEN BucketUpdateTags(tgOld, tgNew, listed.tags)
                     ELSE ObjectUpdateTags(tgOld, tgNew, listed.tags)
         IN  /\ TagsCalled(call, err)
             /\ IF IsObjectFn(tgOp.fn) /\ RetryAgain(err, tgPolls)
                THEN /\ tgPolls' = tgPolls + 1
                     /\ UNCHANGED <<tgOp, tgListed, tgPlan>>
                ELSE /\ tgListed' = listed
                     /\ UNCHANGED tgPolls
                     /\ IF ~IsUpdateFn(tgOp.fn) \/ listed.err # "nil"
                        THEN /\ tgOp' = [tgOp EXCEPT !.pc = "done", !.err = listed.err]
                             /\ tgPlan' = <<>>
                        ELSE /\ tgPlan' = plan
                             /\ tgOp' = [tgOp EXCEPT !.pc = IF plan = <<>> THEN "done"
                                                           ELSE "mutate"]
    /\ UNCHANGED <<resource, efsVars, remoteTags, objVisible, tgOld, tgNew, tgCount, tgPrev, tgEnv,
                   rtVars, ctVars, wfVars, odVars>>

\* The corrective call of BucketUpdateTags or ObjectUpdateTags.
MutateTagsStep ==
    /\ resource \in TagResources
    /\ tgOp.pc = "mutate"
    /\ \E outcome \in {"nil", "AccessDenied"} :
          /\ TagsCalled(Head(tgPlan).call, outcome)
          /\ IF outcome = "nil"
             THEN /\ remoteTags' = AfterTagging(Head(tgPlan))
                  /\ tgPlan' = Tail(tgPlan)
                  /\ tgOp' = [tgOp EXCEPT !.pc = IF Tail(tgPlan) = <<>> THEN "done"
                                                ELSE "mutate"]
             ELSE /\ tgOp' = [tgOp EXCEPT !.pc = "done", !.err = outcome]
                  /\ UNCHANGED <<remoteTags, tgPlan>>
    /\ UNCHANGED <<resource, efsVars, objVisible, tgOld, tgNew, tgListed, tgPolls, tgCount, tgPrev,
                   tgEnv, rtVars, ctVars, wfVars, odVars>>

\* Someone else changes the tags of the bucket or object.
RemoteTagChange ==
    /\ resource \in TagResources
    /\ tgEnv < MaxTagChanges
    /\ tgEnv' = tgEnv + 1
    /\ \E kv \in TagSets :
          /\ kv # remoteTags
          /\ remoteTags' = kv
    /\ UNCHANGED <<resource, efsVars, objVisible, tgOp, tgOld, tgNew, tgListed, tgPlan,
                   tgCalls, tgPolls, tgCount, tgPrev, rtVars, ctVars, wfVars, odVars>>

\* The object a caller has just written becomes visible to GetObjectTagging.
ObjectBecomesVisible ==
    /\ resource \in {"object_tags", "object_listing", "object"}
    /\ ~objVisible
    /\ objVisible' = TRUE
    /\ UNCHANGED <<resource, efsVars, remoteTags, tgOp, tgOld, tgNew, tgListed, tgPlan,
                   tgCalls, tgPolls, tgCount, tgPrev, tgEnv, rtVars, ctVars, wfVars, odVars>>

TgInit ==
    /\ remoteTags \in (IF resource \in TagResources \cup {"object"}
                       THEN TagSets ELSE {{}})
    /\ objVisible \in (IF resource \in {"object_tags", "object_listing", "object"} THEN BOOLEAN ELSE {TRUE})
    /\ tgOp = [fn |-> "none", pc |-> "idle", err |-> "nil"]
    /\ tgOld = Nil
    /\ tgNew = Nil
    /\ tgListed = [tags |-> [isNil |-> TRUE, kv |-> {}], err |-> "nil"]
    /\ tgPlan = <<>>
    /\ tgCalls = <<>>
    /\ tgPolls = 0
    /\ tgCount = 0
    /\ tgPrev = [fn |-> "none", err |-> "nil", remote |-> {}]
    /\ tgEnv = 0

(***************************************************************************)
(* The S3 object data source (dataSourceObjectRead).  The object is a list *)
(* of versions, the last one current; in a bucket without versioning the   *)
(* list has one element and S3 reports no version id.                      *)
(***************************************************************************)
MaxOverwrites == 1    \* times someone else overwrites the object during a read

ObjectBuckets == {"bucket-1"}
ObjectKeys == {"logs/app.txt"}
ConfiguredVersionIds == {"", "v1", "v2"}
IgnoreTagsConfigs == {{}, {"Name"}}
StoredContentTypes == {Nil, Ptr("text/plain"), Ptr("application/json"), Ptr("image/png")}

VersionIdOf(i) == "v" \o ToString(i)
BodyOf(generation) == "body-" \o ToString(generation)

EmptyObjectAttrs ==
    [id |-> "", body |-> Nil, content_type |-> "", version_id |-> "",
     tags |-> [isNil |-> TRUE, kv |-> {}]]

\* Mutant: the version is left out of the id.
objectUniqueId_noVersion(config) == config.bucket \o "/" \o config.key

\* dataSourceObjectRead: uniqueId
objectUniqueId(config) ==
    IF config.version_id # ""
    THEN config.bucket \o "/" \o config.key \o "@" \o config.version_id
    ELSE config.bucket \o "/" \o config.key

\* dataSourceObjectRead: the HeadObjectInput it builds
headObjectInput(config) ==
    [Bucket    |-> awsString(config.bucket),
     Key       |-> awsString(config.key),
     VersionId |-> IF config.version_id # "" THEN awsString(config.version_id) ELSE Nil]

\* Mutant: the GetObject request addresses the current version.
getObjectInput_noVersion(config, out) ==
    [Bucket    |-> awsString(config.bucket),
     Key       |-> awsString(config.key),
     VersionId |-> Nil]

\* dataSourceObjectRead: the GetObjectInput it builds from HeadObject's output
getObjectInput(config, out) ==
    [Bucket    |-> awsString(config.bucket),
     Key       |-> awsString(config.key),
     VersionId |-> IF out.VersionId # Nil THEN out.VersionId ELSE Nil]

\* dataSourceObjectRead: what follows HeadObject's answer
objectReadAfterHead(err, out) ==
    IF err # "nil" THEN "fail"
    ELSE IF out.DeleteMarker # Nil /\ out.DeleteMarker[1] THEN "fail"
    ELSE IF isContentTypeAllowed(out.ContentType) THEN "get"
    ELSE "tags"

\* dataSourceObjectRead: the value stored in "tags"
objectReadTags(tags, ignoreTagsConfig) ==
    TagsMap(Ignore(IgnoreAWS(tags), [isNil |-> FALSE, kv |-> {p \in TagPairs : p[1] \in ignoreTagsConfig}]))

(***************************************************************************)
(* S3's side of HeadObject and GetObject.                                  *)
(***************************************************************************)
\* The index of the version a request addresses; 0 when there is none.
TargetVersion(versionId) ==
    IF versionId = Nil THEN Len(odVersions)
    ELSE IF odVersioned /\ \E i \in 1..Len(odVersions) : VersionIdOf(i) = versionId[1]
         THEN CHOOSE i \in 1..Len(odVersions) : VersionIdOf(i) = versionId[1]
         ELSE 0

ObjectAnswers(versionId) ==
    {"AccessDenied"} \cup (IF TargetVersion(versionId) = 0 THEN {"NotFound"} ELSE {"nil"})

HeadObjectOutput(i) ==
    [ContentType  |-> odVersions[i].ContentType,
     VersionId    |-> IF odVersioned THEN awsString(VersionIdOf(i)) ELSE Nil,
     DeleteMarker |-> IF odVersions[i].DeleteMarker THEN Ptr(TRUE) ELSE Nil]

ObjectCalled(call, outcome) ==
    odCalls' = Append(odCalls, [call |-> call, outcome |-> outcome])

ObjectFinish(diags) == odOp' = [pc |-> "done", diags |-> diags]

\* The framework reads the data source.
BeginObjectRead ==
    /\ resource = "object"
    /\ odOp.pc = "idle"
    /\ odOp' = [pc |-> "head", diags |-> "none"]
    /\ UNCHANGED <<resource, efsVars, odConfig, odVersioned, odVersions, odHead, odGetInput,
                   odAttrs, odCalls, odWrites, rtVars, ctVars, wfVars, tgVars>>

\* dataSourceObjectRead up to the GetObject call: HeadObject, the id and the
\* attributes of the head output
HeadObject ==
    /\ resource = "object"
    /\ odOp.pc = "head"
    /\ LET input == headObjectInput(odConfig) IN
         \E err \in ObjectAnswers(input.VersionId) :
            LET out == IF err = "nil" THEN HeadObjectOutput(TargetVersion(input.VersionId))
                       ELSE [ContentType |-> Nil, VersionId |-> Nil, DeleteMarker |-> Nil]
                next == objectReadAfterHead(err, out)
            IN  /\ ObjectCalled("HeadObject", err)
                /\ IF next = "fail"
                   THEN /\ ObjectFinish("error")
                        /\ UNCHANGED <<odHead, odGetInput, odAttrs>>
                   ELSE /\ odHead' = Ptr(out)
                        /\ odAttrs' = [odAttrs EXCEPT
                                          !.id = objectUniqueId(odConfig),
                                          !.content_type = awsStringValue(out.ContentType),
                                          !.version_id = awsStringValue(out.VersionId)]
                        /\ odGetInput' = IF next = "get"
                                         THEN Ptr(getObjectInput(odConfig, out)) ELSE Nil
                        /\ odOp' = [odOp EXCEPT !.pc = next]
    /\ UNCHANGED <<resource, efsVars, odConfig, odVersioned, odVersions, odWrites,
                   rtVars, ctVars, wfVars, tgVars>>

\* dataSourceObjectRead: GetObject and the read of the body
GetObject ==
    /\ resource = "object"
    /\ odOp.pc = "get"
    /\ \E err \in ObjectAnswers(odGetInput[1].VersionId) \cup {"ReadFailed"} :
          /\ ObjectCalled("GetObject", err)
          /\ err = "ReadFailed" => TargetVersion(odGetInput[1].VersionId) # 0
          /\ IF err = "nil"
             THEN /\ odAttrs' = [odAttrs EXCEPT !.body =
                         Ptr(odVersions[TargetVersion(odGetInput[1].VersionId)].Body)]
                  /\ odOp' = [odOp EXCEPT !.pc = "tags"]
             ELSE /\ ObjectFinish("error")
                  /\ UNCHANGED odAttrs
    /\ UNCHANGED <<resource, efsVars, odConfig, odVersioned, odVersions, odHead, odGetInput,
                   odWrites, rtVars, ctVars, wfVars, tgVars>>

\* dataSourceObjectRead: ObjectListTagsV1 (one step per GetObjectTagging
\* call) and the write of "tags"
ObjectReadTagsStep ==
    /\ resource = "object"
    /\ odOp.pc = "tags"
    /\ \E err \in GetTaggingAnswers(TRUE) :
         LET listed == ObjectListTagsV1(err, RemoteTagSet) IN
            /\ ObjectCalled("GetObjectTagging", err)
            /\ IF RetryAgain(err, tgPolls)
               THEN /\ tgPolls' = tgPolls + 1
                    /\ UNCHANGED <<odOp, odAttrs>>
               ELSE /\ UNCHANGED tgPolls
                    /\ IF listed.err # "nil"
                       THEN /\ ObjectFinish("error")
                            /\ UNCHANGED odAttrs
                       ELSE /\ odAttrs' = [odAttrs EXCEPT !.tags =
                                   objectReadTags(listed.tags, odConfig.ignore_tags)]
                            /\ ObjectFinish("ok")
    /\ UNCHANGED <<resource, efsVars, odConfig, odVersioned, odVersions, odHead, odGetInput,
                   odWrites, remoteTags, objVisible, tgOp, tgOld, tgNew, tgListed,
                   tgPlan, tgCalls, tgCount, tgPrev, tgEnv, rtVars, ctVars, wfVars>>

\* Someone else overwrites the object: a new current version in a versioned
\* bucket, a replaced object otherwise.
ObjectOverwritten ==
    /\ resource = "object"
    /\ odWrites < MaxOverwrites
    /\ odWrites' = odWrites + 1
    /\ \E ct \in StoredContentTypes :
         LET obj == [ContentType |-> ct, Body |-> BodyOf(odWrites + 2), DeleteMarker |-> FALSE]
         IN  odVersions' = IF odVersioned THEN Append(odVersions, obj) ELSE <<obj>>
    /\ UNCHANGED <<resource, efsVars, odConfig, odVersioned, odOp, odHead, odGetInput, odAttrs,
                   odCalls, rtVars, ctVars, wfVars, tgVars>>

OdInit ==
    /\ IF resource = "object"
       THEN /\ odConfig \in [bucket : ObjectBuckets, key : ObjectKeys,
                            version_id : ConfiguredVersionIds,
                            ignore_tags : IgnoreTagsConfigs]
            /\ odVersioned \in BOOLEAN
            /\ \E ct \in StoredContentTypes, dm \in BOOLEAN :
                  /\ dm => odVersioned
                  /\ odVersions = <<[ContentType |-> ct, Body |-> BodyOf(1),
                                     DeleteMarker |-> dm]>>
       ELSE /\ odConfig = [bucket |-> "", key |-> "", version_id |-> "", ignore_tags |-> {}]
            /\ odVersioned = FALSE
            /\ odVersions = <<>>
    /\ odOp = [pc |-> "idle", diags |-> "none"]
    /\ odHead = Nil
    /\ odGetInput = Nil
    /\ odAttrs = EmptyObjectAttrs
    /\ odCalls = <<>>
    /\ odWrites = 0

(***************************************************************************)
(* The EFS file system data source.  Its read is not among the sources;    *)
(* the acceptance tests fix what it does: a lookup by file_system_id, by   *)
(* creation_token or by tags succeeds when exactly one file system is      *)
(* selected, and fails with "Search returned <n> results" otherwise.       *)
(***************************************************************************)
FileSystems ==
    { [id |-> "fs-1", creation_token |-> "tok-a", tags |-> {}],
      [id |-> "fs-2", creation_token |-> "tok-b",
       tags |-> {<<"Name", "default-efs">>, <<"Environment", "dev">>}],
      [id |-> "fs-3", creation_token |-> "tok-c", tags |-> {<<"Environment", "test">>}] }

FileSystemTagConfigs ==
    { {},
      {<<"Name", "Does_Not_Exist">>},
      {<<"Name", "default-efs">>, <<"Environment", "dev">>},
      {<<"Environment", "test">>} }

FileSystemConfigs ==
    [file_system_id : {"", "fs-2"}, creation_token : {"", "tok-a"},
     tags : FileSystemTagConfigs]

\* tags.ContainsAll(tagsToMatch): every wanted key is there with its value.
ContainsAll(tags, tagsToMatch) == tagsToMatch \subseteq tags

\* EFS's DescribeFileSystems: the file systems the request's id and token select.
DescribeFileSystems(config) ==
    { fs \in efsRemote :
        /\ config.file_system_id # "" => fs.id = config.file_system_id
        /\ config.creation_token # "" => fs.creation_token = config.creation_token }

DescribeFileSystemsAnswers(config) ==
    {"error"} \cup
    (IF config.file_system_id # "" /\ DescribeFileSystems(config) = {}
     THEN {"FileSystemNotFound"} ELSE {"ok"})

SearchError(count) ==
    "Search returned " \o ToString(count) \o " results"

\* The file systems the read keeps of a listing: all of them ...
fileSystemSearchResults_unfilteredWhenNoMatch(listed, tagsToMatch) ==
    LET matching == { fs \in listed : ContainsAll(fs.tags, tagsToMatch) }
    IN  IF matching = {} THEN listed ELSE matching

\* ... or, if tags are configured, those carrying every configured tag.
fileSystemSearchResults(listed, tagsToMatch) ==
    IF tagsToMatch # {}
    THEN { fs \in listed : ContainsAll(fs.tags, tagsToMatch) }
    ELSE listed

BeginFileSystemRead ==
    /\ resource = "file_system"
    /\ efsOp.pc = "idle"
    /\ efsOp' = [pc |-> "describe", diags |-> "none"]
    /\ UNCHANGED <<resource, efsRemote, efsConfig, efsListed, efsAttrs,
                   rtVars, ctVars, wfVars, tgVars, odVars>>

FileSystemRead ==
    /\ resource = "file_system"
    /\ efsOp.pc = "describe"
    /\ \E outcome \in DescribeFileSystemsAnswers(efsConfig) :
          IF outcome # "ok"
          THEN /\ efsOp' = [pc |-> "done", diags |-> outcome]
               /\ UNCHANGED <<efsListed, efsAttrs>>
          ELSE LET listed  == DescribeFileSystems(efsConfig)
                   results == fileSystemSearchResults(listed, efsConfig.tags)
                   count   == Cardinality(results)
               IN  /\ efsListed' = listed
                   /\ IF count # 1
                      THEN /\ efsOp' = [pc |-> "done", diags |-> SearchError(count)]
                           /\ UNCHANGED efsAttrs
                      ELSE /\ efsOp' = [pc |-> "done", diags |-> "none"]
                           /\ efsAttrs' = Ptr(CHOOSE fs \in results : TRUE)
    /\ UNCHANGED <<resource, efsRemote, efsConfig, rtVars, ctVars, wfVars, tgVars, odVars>>

EfsInit ==
    /\ IF resource = "file_system"
       THEN /\ efsRemote \in SUBSET FileSystems
            /\ efsConfig \in FileSystemConfigs
       ELSE /\ efsRemote = {}
            /\ efsConfig = [file_system_id |-> "", creation_token |-> "", tags |-> {}]
    /\ efsOp = [pc |-> "idle", diags |-> "none"]
    /\ efsListed = {}
    /\ efsAttrs = Nil

RtInit ==
    /\ rtBlock = [name |-> "none", phase |-> "idle"]
    /\ rtInput = <<>>
    /\ rtApi = Nil
    /\ rtOutput = <<>>
    /\ rtSecret = ""

CtInit ==
    /\ ctDone = FALSE
    /\ ctInput = Nil
    /\ ctResult = FALSE

Init ==
    /\ resource \in {"mapping", "content_type", "workforce", "bucket_tags", "object_tags",
                     "object_listing", "object", "file_system"}
    /\ RtInit
    /\ CtInit
    /\ WfInit
    /\ TgInit
    /\ OdInit
    /\ EfsInit

Next ==
    \/ RoundTripExpand
    \/ RoundTripFlatten
    \/ ContentTypeCheck
    \/ BeginCreate
    \/ BeginRead
    \/ BeginImport
    \/ BeginUpdate
    \/ BeginDelete
    \/ CreateWorkforce
    \/ UpdateWorkforce
    \/ WaitWorkforceActive
    \/ ReadWorkforce
    \/ DeleteWorkforce
    \/ WaitWorkforceDeleted
    \/ RemoteChange
    \/ BeginTagCall
    \/ ListTagsStep
    \/ MutateTagsStep
    \/ RemoteTagChange
    \/ ObjectBecomesVisible
    \/ BeginObjectRead
    \/ HeadObject
    \/ GetObject
    \/ ObjectReadTagsStep
    \/ ObjectOverwritten
    \/ BeginFileSystemRead
    \/ FileSystemRead

Spec == Init /\ [][Next]_vars

(***************************************************************************)
(* The listing of object tags on its own, with the progress its caller's   *)
(* thread makes: a listing that has been called keeps running, so its next *)
(* GetObjectTagging call is eventually made.  Nothing is assumed of S3 or  *)
(* of other actors.                                                        *)
(***************************************************************************)
ObjectTagsInit == Init /\ resource = "object_listing"

ObjectTagsNext ==
    \/ BeginTagCall
    \/ ListTagsStep
    \/ RemoteTagChange
    \/ ObjectBecomesVisible

ObjectTagsSpec ==
    /\ ObjectTagsInit
    /\ [][ObjectTagsNext]_vars
    /\ WF_vars(ListTagsStep)

(***************************************************************************)
(* Properties.                                                             *)
(***************************************************************************)
RoundTripDone == resource = "mapping" /\ rtBlock.phase = "flattened"

\* The input with the write-only secret replaced by the value flatten is given.
WithSecret(l, secret) ==
    IF Len(l) = 0 THEN l ELSE <<[l[1] EXCEPT !.client_secret = secret]>>

\* What flatten yields for an empty WorkforceVpcConfigRequest.
EmptyVpcBlock ==
    [security_group_ids |-> {}, subnets |-> {}, vpc_endpoint_id |-> "", vpc_id |-> ""]

\* C1 as stated: flatten(expand(input)) reproduces the input of every block,
\* the absent block included, the oidc client_secret alone excepted.
C1_RoundTripAllBlocks ==
    RoundTripDone =>
        IF rtBlock.name = "oidc_config"
        THEN rtOutput = WithSecret(rtInput, rtSecret)
        ELSE rtOutput = rtInput

\* C1 (amended): flatten(expand(input)) reproduces the input of cognito_config,
\* source_ip_config and oidc_config field for field (oidc client_secret is the
\* value handed to flatten), the absent block included.  For
\* workforce_vpc_config a present block is reproduced except the computed
\* vpc_endpoint_id, which expand does not send, and an absent or empty block
\* expands to an empty request structure (not nil), which flattens to one
\* block of empty fields, not to the empty list.
C1_RoundTrip ==
    RoundTripDone =>
        CASE rtBlock.name = "oidc_config" -> rtOutput = WithSecret(rtInput, rtSecret)
          [] rtBlock.name = "workforce_vpc_config" ->
                IF Len(rtInput) = 0 \/ rtInput[1] = NilElem
                THEN rtOutput = <<EmptyVpcBlock>>
                ELSE rtOutput = <<[rtInput[1] EXCEPT !.vpc_endpoint_id = ""]>>
          [] OTHER -> rtOutput = rtInput

\* A present oidc block went through expand and flatten with a secret other
\* than its own, and came back with that secret and its other fields.
C1_Witness ==
    /\ RoundTripDone
    /\ rtBlock.name = "oidc_config"
    /\ Len(rtInput) = 1
    /\ rtInput[1].client_secret # rtSecret
    /\ rtOutput[1].issuer = rtInput[1].issuer
    /\ rtOutput[1].client_secret = rtSecret

ContentTypeDone == resource = "content_type" /\ ctDone

ExactlyAllowed ==
    {"application/atom+xml", "application/json", "application/ld+json",
     "application/x-csh", "application/x-httpd-php", "application/x-sh",
     "application/xhtml+xml", "application/xml"}

\* "text/" followed by at least one character
IsTextType(s) == Len(s) > 5 /\ SubSeq(s, 1, 5) = "text/"

WfDone(name) ==
    resource = "workforce" /\ wfOp.name = name /\ wfOp.pc = "done"

\* The outcomes of the calls named call in the current callback.
Outcomes(call) == {wfCalls[i].outcome : i \in {j \in 1..Len(wfCalls) : wfCalls[j].call = call}}
AnyOutcome == {wfCalls[i].outcome : i \in 1..Len(wfCalls)}

\* C2: when DeleteWorkforce answers "ValidationException: No workforce",
\* resourceWorkforceDelete returns no error and never starts the deleted
\* waiter; so a delete of a Workforce that is already gone (a repeated
\* delete after a successful one included) succeeds whenever AWS gives that
\* answer.
C2_DeleteAbsentSucceeds ==
    (WfDone("delete") /\ "NoWorkforce" \in Outcomes("DeleteWorkforce")) =>
        /\ wfOp.diags = "ok"
        /\ Outcomes("WaitWorkforceDeleted") = {}

\* A second delete, after one that succeeded, found the Workforce gone and
\* succeeded.
C2_Witness ==
    /\ WfDone("delete")
    /\ wfCount = 3
    /\ "NoWorkforce" \in Outcomes("DeleteWorkforce")
    /\ remote = Nil
    /\ wfOp.diags = "ok"

\* A read that found the Workforce and wrote the attributes.
ReadSucceeded ==
    /\ resource = "workforce"
    /\ wfOp.pc = "done" /\ wfOp.diags = "ok"
    /\ wfResponse # Nil

\* The attribute lists that mirror a response structure.
MirrorCognito(c) ==
    IF c = Nil THEN <<>>
    ELSE <<[client_id |-> c[1].ClientId[1], user_pool |-> c[1].UserPool[1]]>>
MirrorSourceIP(c) ==
    IF c = Nil THEN <<>>
    ELSE <<[cidrs |-> {c[1].Cidrs[i][1] : i \in 1..Len(c[1].Cidrs)}]>>
MirrorVPC(c) ==
    IF c = Nil THEN <<>>
    ELSE <<[security_group_ids |->
                {c[1].SecurityGroupIds[i][1] : i \in 1..Len(c[1].SecurityGroupIds)},
            subnets |-> {c[1].Subnets[i][1] : i \in 1..Len(c[1].Subnets)},
            vpc_endpoint_id |-> c[1].VpcEndpointId[1],
            vpc_id |-> c[1].VpcId[1]]>>
\* oidc_config mirrors the response in every field but client_secret.
MirrorsOidc(l, c) ==
    IF c = Nil THEN l = <<>>
    ELSE /\ Len(l) = 1
         /\ l[1].authorization_endpoint = c[1].AuthorizationEndpoint[1]
         /\ l[1].client_id = c[1].ClientId[1]
         /\ l[1].issuer = c[1].Issuer[1]
         /\ l[1].jwks_uri = c[1].JwksUri[1]
         /\ l[1].logout_endpoint = c[1].LogoutEndpoint[1]
         /\ l[1].token_endpoint = c[1].TokenEndpoint[1]
         /\ l[1].user_info_endpoint = c[1].UserInfoEndpoint[1]

\* C7: after every successful resourceWorkforceRead each attribute equals the
\* value in the DescribeWorkforce response, a block absent from the response
\* being the empty list, oidc client_secret alone excepted.
C7_ReadMirrorsResponse ==
    ReadSucceeded =>
        LET w == wfResponse[1] IN
            /\ dAttrs.arn = w.WorkforceArn[1]
            /\ dAttrs.subdomain = w.SubDomain[1]
            /\ dAttrs.workforce_name = w.WorkforceName[1]
            /\ dAttrs.cognito_config = MirrorCognito(w.CognitoConfig)
            /\ MirrorsOidc(dAttrs.oidc_config, w.OidcConfig)
            /\ dAttrs.source_ip_config = MirrorSourceIP(w.SourceIpConfig)
            /\ dAttrs.workforce_vpc_config = MirrorVPC(w.WorkforceVpcConfig)

\* The client secret an attribute store holds: the zero value without a block.
SecretOf(attrs) ==
    IF attrs.oidc_config = <<>> THEN "" ELSE attrs.oidc_config[1].client_secret

\* C8: after a read in which AWS reports an OIDC config, client_secret is the
\* value the state held before the read and every other oidc_config field is
\* the response's.
C8_SecretPreserved ==
    (ReadSucceeded /\ wfResponse[1].OidcConfig # Nil) =>
        /\ MirrorsOidc(dAttrs.oidc_config, wfResponse[1].OidcConfig)
        /\ dAttrs.oidc_config[1].client_secret = SecretOf(wfBefore)

\* A read replaced the provider's fields by the response's and kept the
\* secret of the state.
C8_Witness ==
    /\ ReadSucceeded
    /\ wfResponse[1].OidcConfig # Nil
    /\ SecretOf(wfBefore) = "secret-2"
    /\ wfBefore.oidc_config[1].issuer # dAttrs.oidc_config[1].issuer
    /\ dAttrs.oidc_config[1].client_secret = "secret-2"

\* C10: every CreateWorkforce request of resourceWorkforceCreate carries
\* exactly one of CognitoConfig and OidcConfig.
C10_ExactlyOneAuthConfig ==
    (resource = "workforce" /\ wfOp.name = "create" /\ wfRequest # Nil) =>
        (wfRequest[1].CognitoConfig = Nil) # (wfRequest[1].OidcConfig = Nil)

\* A CreateWorkforce request with an OidcConfig and no CognitoConfig was sent.
C10_Witness ==
    /\ resource = "workforce" /\ wfOp.name = "create" /\ wfRequest # Nil
    /\ wfRequest[1].OidcConfig # Nil
    /\ wfRequest[1].CognitoConfig = Nil
    /\ "ok" \in Outcomes("CreateWorkforce")

(***************************************************************************)
(* Properties of the tag helpers and of the object data source.            *)
(***************************************************************************)
NoTagSetCodes == {"NoSuchTagSet", "NoSuchTagSetError"}
EmptyNonNilTags == [isNil |-> FALSE, kv |-> {}]

TagHelperDone == resource \in {"bucket_tags", "object_tags"} /\ tgOp.pc = "done"
ListingDone ==
    TagHelperDone /\ tgOp.fn \in {"BucketListTags", "ObjectListTags", "ObjectListTagsV1"}
ObjectReadDone == resource = "object" /\ odOp.pc = "done"
LastOutcome(calls) == calls[Len(calls)].outcome

\* C3: when Get*Tagging answers NoSuchTagSet or NoSuchTagSetError, each of
\* BucketListTags, ObjectListTags and ObjectListTagsV1 returns an empty,
\* non-nil tag mapping and a nil error; no listing that succeeds returns a
\* nil mapping; and the object data source then stores an empty, non-null
\* map in "tags".
C3_NoTagSetIsEmptyMap ==
    /\ (ListingDone /\ LastOutcome(tgCalls) \in NoTagSetCodes) =>
            tgListed = [tags |-> EmptyNonNilTags, err |-> "nil"]
    /\ (ListingDone /\ tgListed.err = "nil") => ~tgListed.tags.isNil
    /\ (ObjectReadDone /\ LastOutcome(odCalls) \in NoTagSetCodes) =>
            odOp.diags = "ok" /\ odAttrs.tags = EmptyNonNilTags
    /\ (ObjectReadDone /\ odOp.diags = "ok") => ~odAttrs.tags.isNil

\* The object data source finished a read whose tag listing was answered
\* "no tag set".
C3_Witness ==
    /\ ObjectReadDone
    /\ LastOutcome(odCalls) = "NoSuchTagSetError"
    /\ odAttrs.tags = EmptyNonNilTags
    /\ odAttrs.body # Nil

MutatingCalls ==
    {"PutBucketTagging", "DeleteBucketTagging", "PutObjectTagging", "DeleteObjectTagging"}
Mutations == {i \in 1..Len(tgCalls) : tgCalls[i].call \in MutatingCalls}

\* C5: a call of BucketUpdateTags or ObjectUpdateTags issues, after the
\* listing, at most one mutating call: one Put*Tagging or one
\* Delete*Tagging, never both.
C5_AtMostOneCorrectiveCall ==
    (resource \in {"bucket_tags", "object_tags"}) =>
        /\ Cardinality(Mutations) <= 1
        /\ \A i \in Mutations : tgCalls[i].outcome = "nil" => tgOp.pc = "done"

\* An update with old and new tags both present finished after its single
\* PutObjectTagging.
C5_Witness ==
    /\ TagHelperDone
    /\ tgOp.fn = "ObjectUpdateTags"
    /\ tgOld # Nil /\ tgOld[1] # {} /\ tgNew[1] # {}
    /\ Cardinality(Mutations) = 1
    /\ LastOutcome(tgCalls) = "nil"

\* C6: after a successful read of the S3 object data source the id is
\* bucket/key without a configured version_id and bucket/key@versionId with
\* one; after a successful Workforce create the id is the Workforce name.
C6_IdentifierFormats ==
    /\ (ObjectReadDone /\ odOp.diags = "ok") =>
            odAttrs.id = IF odConfig.version_id = ""
                         THEN odConfig.bucket \o "/" \o odConfig.key
                         ELSE odConfig.bucket \o "/" \o odConfig.key
                                  \o "@" \o odConfig.version_id
    /\ (WfDone("create") /\ wfOp.diags = "ok") =>
            dId \in WorkforceNames /\ dId = wfRequest[1].WorkforceName[1]

\* A read of a configured version succeeded and stored the composite id.
C6_Witness ==
    /\ ObjectReadDone /\ odOp.diags = "ok"
    /\ odConfig.version_id = "v1"
    /\ odAttrs.id = "bucket-1/logs/app.txt@v1"

\* A create succeeded and stored the name as id.
C6_WitnessWorkforce ==
    /\ WfDone("create") /\ wfOp.diags = "ok"
    /\ dId = "wf-b"

\* The calls of a sequence that failed, other than with the codes in exempt.
Failed(calls, exempt) ==
    {i \in 1..Len(calls) : calls[i].outcome \notin ({"nil", "ok"} \cup exempt)}

\* C9 as stated: but for "No workforce" on DeleteWorkforce and "no tag set"
\* on a tag listing, a callback or helper returns an error whenever an AWS
\* call it made failed.
C9_EveryOtherErrorFatal ==
    /\ (resource = "workforce" /\ wfOp.pc = "done") =>
          (((\E i \in Failed(wfCalls, {}) :
                ~(wfCalls[i].call = "DeleteWorkforce" /\ wfCalls[i].outcome = "NoWorkforce"))
           => wfOp.diags = "error"))
    /\ (TagHelperDone /\ Failed(tgCalls, NoTagSetCodes) # {}) => tgOp.err # "nil"
    /\ (ObjectReadDone /\ Failed(odCalls, NoTagSetCodes) # {}) => odOp.diags = "error"

\* A failed call that was not retried: every failure but a NoSuchKey answer
\* of GetObjectTagging that was followed by another attempt.
Unretried(calls, exempt) ==
    {i \in Failed(calls, exempt) :
        ~(calls[i].call = "GetObjectTagging" /\ calls[i].outcome = "NoSuchKey"
          /\ i < Len(calls))}

\* C9 (amended): there are four cases in which a failed AWS call does not
\* fail the operation: "No workforce" on DeleteWorkforce, "no tag set" on a
\* tag listing, the Workforce not being found by the read of a resource that
\* is not new (the id is cleared and no error returned), and a NoSuchKey
\* answer of GetObjectTagging that is retried within the timeout.  Every
\* other failure of an AWS call or waiter makes the Workforce callbacks, the
\* S3 object read and the tag helpers return an error.
C9_OtherErrorsFatal ==
    /\ (resource = "workforce" /\ wfOp.pc = "done") =>
          /\ (\E i \in Failed(wfCalls, {}) :
                 /\ ~(wfCalls[i].call = "DeleteWorkforce" /\ wfCalls[i].outcome = "NoWorkforce")
                 /\ ~(wfCalls[i].call = "DescribeWorkforce"
                      /\ wfCalls[i].outcome = "NoWorkforce" /\ ~dNew))
              => wfOp.diags = "error"
    /\ (TagHelperDone /\ Unretried(tgCalls, NoTagSetCodes) # {}) => tgOp.err # "nil"
    /\ (ObjectReadDone /\ Unretried(odCalls, NoTagSetCodes) # {}) => odOp.diags = "error"

\* A create failed because its re-read did not find the new Workforce.
C9_Witness ==
    /\ WfDone("create")
    /\ "ok" \in Outcomes("CreateWorkforce")
    /\ "NoWorkforce" \in Outcomes("DescribeWorkforce")
    /\ wfOp.diags = "error"

(***************************************************************************)
(* Properties of the EFS file system data source.                          *)
(***************************************************************************)
FileSystemReadDone == resource = "file_system" /\ efsOp.pc = "done"

SearchReturnedZero == "Search returned 0 results"

\* The test's ExpectError pattern, unanchored, against these diagnostics.
MatchesSearchReturnedZero(diags) ==
    /\ Len(diags) >= Len(SearchReturnedZero)
    /\ SubSeq(diags, 1, Len(SearchReturnedZero)) = SearchReturnedZero

\* The lookup is by tags alone and the listing succeeded without any file
\* system that carries every configured tag.
TagsMatchNothing ==
    /\ FileSystemReadDone
    /\ efsConfig.tags # {}
    /\ efsConfig.file_system_id = "" /\ efsConfig.creation_token = ""
    /\ efsOp.diags # "error"
    /\ \A fs \in efsRemote : ~ ContainsAll(fs.tags, efsConfig.tags)

\* C11: a lookup by tags that no existing file system carries fails with an
\* error matching 'Search returned 0 results' and stores no file system, also
\* when the account has other file systems.
C11_NoMatchIsAnError ==
    TagsMatchNothing =>
        /\ MatchesSearchReturnedZero(efsOp.diags)
        /\ efsAttrs = Nil

\* The test's second step: one file system without tags exists and the lookup
\* is by Name = "Does_Not_Exist".
C11_Witness ==
    /\ TagsMatchNothing
    /\ efsConfig.tags = {<<"Name", "Does_Not_Exist">>}
    /\ \E fs \in efsRemote : fs.tags = {}
    /\ efsListed = efsRemote
    /\ MatchesSearchReturnedZero(efsOp.diags)

(***************************************************************************)
(* Properties of the order of steps in create and update.                  *)
(***************************************************************************)
MutatingCallOf(name) == IF name = "create" THEN "CreateWorkforce" ELSE "UpdateWorkforce"

StepsOf(name) == <<MutatingCallOf(name), "WaitWorkforceActive", "DescribeWorkforce">>

InCreateOrUpdate == resource = "workforce" /\ wfOp.name \in {"create", "update"}

\* The calls made so far are the first steps of the order, each started only
\* after the one before it succeeded, and the callback stands where its calls
\* say.
StepsInOrder ==
    /\ Len(wfCalls) <= 3
    /\ \A i \in 1..Len(wfCalls) : wfCalls[i].call = StepsOf(wfOp.name)[i]
    /\ \A i \in 1..(Len(wfCalls) - 1) : wfCalls[i].outcome = "ok"
    /\ wfOp.pc = "call" => Len(wfCalls) = 0
    /\ wfOp.pc = "wait" => Len(wfCalls) = 1 /\ wfCalls[1].outcome = "ok"
    /\ wfOp.pc = "read" => Len(wfCalls) = 2 /\ wfCalls[2].outcome = "ok"
    /\ wfOp.pc = "done" => Len(wfCalls) >= 1

\* The re-read of an update found no Workforce: the resource leaves the state
\* and the update returns without error.
RemovedByReRead ==
    /\ wfOp.name = "update"
    /\ Len(wfCalls) = 3
    /\ wfCalls[3].outcome = "NoWorkforce"

\* C12 as stated: create and update run the mutating call, the waiter and the
\* re-read in that order, each only after the one before succeeded, and a
\* failure at any step returns an error.
C12_EveryFailureIsAnError ==
    InCreateOrUpdate =>
        /\ StepsInOrder
        /\ \A i \in 1..Len(wfCalls) :
              wfCalls[i].outcome # "ok" => wfOp.pc = "done" /\ wfOp.diags = "error"
        /\ wfOp.pc = "done" /\ wfOp.diags = "ok" =>
              Len(wfCalls) = 3 /\ wfCalls[3].outcome = "ok"

\* C12: create and update run the mutating call, the waiter and the re-read in
\* that order, each only after the one before succeeded; a failed step ends the
\* callback with an error and no later step, except that an update whose
\* re-read finds no Workforce ends without error and with the id cleared.
C12_CreateUpdateOrder ==
    InCreateOrUpdate =>
        /\ StepsInOrder
        /\ \A i \in 1..Len(wfCalls) :
              wfCalls[i].outcome # "ok" =>
                 /\ wfOp.pc = "done"
                 /\ IF RemovedByReRead
                    THEN wfOp.diags = "ok" /\ dId = ""
                    ELSE wfOp.diags = "error"
        /\ wfOp.pc = "done" /\ wfOp.diags = "ok" =>
              Len(wfCalls) = 3 /\ (wfCalls[3].outcome = "ok" \/ RemovedByReRead)

\* An update ran all three steps, and a create stopped at a failed waiter.
C12_Witness ==
    /\ InCreateOrUpdate
    /\ wfOp.pc = "done"
    /\ \/ /\ wfOp.name = "update" /\ wfOp.diags = "ok"
          /\ Len(wfCalls) = 3 /\ wfCalls[3].outcome = "ok"
       \/ /\ wfOp.name = "create" /\ wfOp.diags = "error"
          /\ Len(wfCalls) = 2 /\ wfCalls[2].outcome = "error"

(***************************************************************************)
(* Properties of the tag updates.                                          *)
(***************************************************************************)
InTagUpdate == resource \in {"bucket_tags", "object_tags"} /\ IsUpdateFn(tgOp.fn)

\* The update's listing succeeded.
UpdateListed == InTagUpdate /\ ~tgListed.tags.isNil /\ tgListed.err = "nil"

OldTags == tgOld[1]
NewTags == tgNew[1]

\* The listed tags whose key is in neither the old nor the new map.
IgnoredTags == {p \in tgListed.tags.kv : p[1] \notin Keys(OldTags) \cup Keys(NewTags)}

\* The tags a request carries.
RequestTags(c) ==
    {<<awsStringValue(c.TagSet[i].Key), awsStringValue(c.TagSet[i].Value)>> :
        i \in 1..Len(c.TagSet)}

IsPut(c) == c.call \in {"PutBucketTagging", "PutObjectTagging"}
IsDelete(c) == c.call \in {"DeleteBucketTagging", "DeleteObjectTagging"}

\* What the update is about to send, or has decided not to send.
RequestAsClaimed ==
    /\ tgOp.pc = "mutate" =>
          /\ Len(tgPlan) = 1
          /\ IsPut(tgPlan[1]) \/ IsDelete(tgPlan[1])
          /\ IsPut(tgPlan[1]) => RequestTags(tgPlan[1]) = NewTags \cup IgnoredTags
          /\ IsDelete(tgPlan[1]) => NewTags = {} /\ OldTags # {} /\ IgnoredTags = {}
    /\ (NewTags = {} /\ OldTags = {} /\ IgnoredTags = {}) =>
          tgOp.pc = "done" /\ Mutations = {}
    /\ (tgOp.pc = "done" /\ Mutations = {}) =>
          NewTags = {} /\ OldTags = {} /\ IgnoredTags = {}

\* The step in which the update's mutating call succeeds.
UpdateSucceeds == InTagUpdate /\ tgOp.pc = "mutate" /\ tgOp'.pc = "done" /\ tgOp'.err = "nil"

\* C13: in BucketUpdateTags and ObjectUpdateTags, with "ignored" the listed
\* tags whose key is in neither the old nor the new map, a Put*Tagging request
\* carries exactly new merged with ignored, a Delete*Tagging request is issued
\* only when new is empty, old is not and ignored is empty, and no mutating
\* call is made when all three are empty; the successful call leaves the
\* remote tag set equal to new plus ignored, every ignored tag still there.
C13_IgnoredTagsPreserved ==
    /\ [](UpdateListed => RequestAsClaimed)
    /\ [][UpdateSucceeds =>
             /\ remoteTags' = NewTags \cup IgnoredTags
             /\ IgnoredTags \subseteq remoteTags']_vars

\* A bucket update replaced Name while the remote set also held a tag of
\* another key, and the PutBucketTagging succeeded.
C13_Witness ==
    /\ UpdateListed
    /\ tgOp.fn = "BucketUpdateTags"
    /\ tgOp.pc = "done" /\ tgOp.err = "nil"
    /\ Mutations # {}
    /\ OldTags = {<<"Name", "v1">>} /\ NewTags = {<<"Name", "v2">>}
    /\ IgnoredTags = {<<"aws:stack", "v1">>}
    /\ remoteTags = {<<"Name", "v2">>, <<"aws:stack", "v1">>}

(***************************************************************************)
(* Properties of the retried listing of object tags.                       *)
(***************************************************************************)
InObjectListing ==
    resource = "object_listing" /\ tgOp.fn \in {"ObjectListTags", "ObjectListTagsV1"}

\* GetObjectTagging is called again only after NoSuchKey and only within the
\* timeout, and the helper returns what the last answer calls for.
PollsOnlyWhileNoSuchKey ==
    InObjectListing =>
        /\ Len(tgCalls) <= PollsPerMinute + 1
        /\ \A i \in 1..Len(tgCalls) : tgCalls[i].call = "GetObjectTagging"
        /\ \A i \in 1..(Len(tgCalls) - 1) : tgCalls[i].outcome = "NoSuchKey"
        /\ tgOp.pc = "list" =>
              /\ Len(tgCalls) <= PollsPerMinute
              /\ \A i \in 1..Len(tgCalls) : tgCalls[i].outcome = "NoSuchKey"
        /\ tgOp.pc = "done" =>
              /\ Len(tgCalls) >= 1
              /\ LET last == LastOutcome(tgCalls) IN
                    /\ last = "nil" => tgOp.err = "nil" /\ ~tgListed.tags.isNil
                    /\ last \in NoTagSetCodes =>
                          tgOp.err = "nil" /\ tgListed.tags = EmptyNonNilTags
                    /\ last = "NoSuchKey" =>
                          tgOp.err = "NoSuchKey" /\ Len(tgCalls) = PollsPerMinute + 1
                    /\ last \notin {"nil", "NoSuchKey"} \cup NoTagSetCodes =>
                          tgOp.err = last

\* C14: ObjectListTags and ObjectListTagsV1 repeat GetObjectTagging only while
\* it fails with NoSuchKey and only until the one-minute timeout; on the first
\* success, on any other error or when the timeout elapses they return with
\* the tags, an empty tag set or an error: a listing that has started always
\* returns.
C14_ListingTerminates ==
    /\ []PollsOnlyWhileNoSuchKey
    /\ (InObjectListing /\ tgOp.pc = "list") ~> (InObjectListing /\ tgOp.pc = "done")

\* The object never became visible: the listing gave up after the last poll
\* the timeout allows and returned NoSuchKey.
C14_Witness ==
    /\ InObjectListing
    /\ tgOp.pc = "done"
    /\ ~objVisible
    /\ Len(tgCalls) = PollsPerMinute + 1
    /\ tgOp.err = "NoSuchKey"

(***************************************************************************)
(* Properties of a read that finds no Workforce.                           *)
(***************************************************************************)
\* resourceWorkforceRead has returned after its lookup found no Workforce.
ReadFoundNothing ==
    /\ resource = "workforce"
    /\ wfOp.pc = "done"
    /\ Len(wfCalls) >= 1
    /\ wfCalls[Len(wfCalls)].call = "DescribeWorkforce"
    /\ LastOutcome(wfCalls) = "NoWorkforce"

\* C15: when resourceWorkforceRead finds no Workforce, a resource that is not
\* new loses its id and the read returns no error; a new resource (read at the
\* end of create) keeps its id and the read returns an error; no attribute is
\* written either way.
C15_ReadOfMissingWorkforce ==
    ReadFoundNothing =>
        /\ dAttrs = wfBefore
        /\ IF dNew
           THEN wfOp.diags = "error" /\ dId # "" /\ dId = dAttrs.workforce_name
           ELSE wfOp.diags = "ok" /\ dId = ""

\* The Workforce disappeared between CreateWorkforce and the read that ends
\* the create.
C15_Witness ==
    /\ ReadFoundNothing
    /\ wfOp.name = "create"
    /\ dNew
    /\ wfOp.diags = "error"
    /\ dId = "wf-b"

(***************************************************************************)
(* Properties of the id during create.                                     *)
(***************************************************************************)
InCreate == resource = "workforce" /\ wfOp.name = "create"

CreateWorkforceSucceeded == Len(wfCalls) >= 1 /\ wfCalls[1].outcome = "ok"

\* C16: in resourceWorkforceCreate the id is set if and only if CreateWorkforce
\* succeeded: it is empty before the call and after a failed call, and from
\* the successful call on it is the Workforce name, also when the waiter or
\* the re-read fails.
C16_IdSetIffCreated ==
    InCreate =>
        /\ dId # "" <=> CreateWorkforceSucceeded
        /\ CreateWorkforceSucceeded =>
              dId = awsStringValue(wfRequest[1].WorkforceName)
        /\ (wfOp.pc = "done" /\ ~CreateWorkforceSucceeded) =>
              wfOp.diags = "error" /\ dId = ""

\* A create failed at the waiter after CreateWorkforce had succeeded: the
\* Workforce exists in AWS and the resource carries its name as id.
C16_Witness ==
    /\ InCreate
    /\ wfOp.pc = "done" /\ wfOp.diags = "error"
    /\ Len(wfCalls) = 2 /\ wfCalls[2].outcome = "error"
    /\ Exists("wf-a")
    /\ dId = "wf-a"

(***************************************************************************)
(* Properties of the UpdateWorkforce request.                              *)
(***************************************************************************)
UpdateRequested == resource = "workforce" /\ wfOp.name = "update" /\ wfRequest # Nil

\* The plan the update applies: the attributes as they were before the
\* re-read overwrote them.
UpdatePlan == IF Len(wfCalls) = 3 THEN wfBefore ELSE dAttrs

Changed(key) == dState[key] # UpdatePlan[key]

\* C17: the UpdateWorkforce request carries each of SourceIpConfig, OidcConfig
\* and WorkforceVpcConfig if and only if the block differs between prior state
\* and plan, never a CognitoConfig, and names the Workforce by the stored id.
C17_UpdateSendsOnlyChanges ==
    UpdateRequested =>
        LET input == wfRequest[1] IN
            /\ input.SourceIpConfig # Nil <=> Changed("source_ip_config")
            /\ input.OidcConfig # Nil <=> Changed("oidc_config")
            /\ input.WorkforceVpcConfig # Nil <=> Changed("workforce_vpc_config")
            /\ "CognitoConfig" \notin DOMAIN input
            /\ input.WorkforceName # awsString("")
            /\ dId # "" => input.WorkforceName = awsString(dId)

\* An update that only removed workforce_vpc_config from an OIDC workforce:
\* the request carries the (empty) WorkforceVpcConfig and nothing else.
C17_Witness ==
    /\ UpdateRequested
    /\ Changed("workforce_vpc_config") /\ UpdatePlan.workforce_vpc_config = <<>>
    /\ ~Changed("oidc_config") /\ Len(dState.oidc_config) = 1
    /\ ~Changed("source_ip_config")
    /\ wfRequest[1].WorkforceVpcConfig = Ptr(EmptyVpcConfigRequest)
    /\ wfRequest[1].OidcConfig = Nil

(***************************************************************************)
(* Properties of a repeated tag update.                                    *)
(***************************************************************************)
\* The helper running, or last run, is an update that follows a successful
\* run of the same update (with the same old and new maps), and nobody else
\* has touched the tags.
RepeatedUpdate ==
    /\ InTagUpdate
    /\ tgPrev.fn = tgOp.fn
    /\ tgPrev.err = "nil"
    /\ tgEnv = 0

\* C18: BucketUpdateTags and ObjectUpdateTags are idempotent: with no other
\* actor changing the tags, a second update with the same old and new maps
\* leaves the remote tag set as the first one left it, at every step and for
\* every initial remote tag set.
C18_UpdateIdempotent == RepeatedUpdate => remoteTags = tgPrev.remote

\* The second update of a bucket that also carries a tag of another key has
\* issued its PutBucketTagging and returned.
C18_Witness ==
    /\ RepeatedUpdate
    /\ tgOp.fn = "BucketUpdateTags"
    /\ tgOp.pc = "done" /\ tgOp.err = "nil"
    /\ Mutations # {}
    /\ NewTags = {<<"Name", "v2">>}
    /\ remoteTags = {<<"Name", "v2">>, <<"aws:stack", "v1">>}

(***************************************************************************)
(* Properties of the body the object data source stores.                   *)
(***************************************************************************)
\* HeadObject succeeded and the read went on.
HeadSucceeded == resource = "object" /\ odHead # Nil

GetObjectCalls == {i \in 1..Len(odCalls) : odCalls[i].call = "GetObject"}

\* The read has decided to fetch the body: the request is built or sent.
BodyFetched == odOp.pc = "get" \/ GetObjectCalls # {}

\* The version HeadObject reported, as an index into the object's versions.
HeadVersion == CHOOSE i \in 1..Len(odVersions) : VersionIdOf(i) = odHead[1].VersionId[1]

\* C19: the body is fetched if and only if the content type HeadObject returned
\* is allowed; when HeadObject returned a version id the GetObject request
\* carries it, so a stored body is the body of the version whose metadata is
\* stored, also when the object is overwritten in between; for a disallowed or
\* absent content type "body" stays unset.
C19_BodyMatchesHead ==
    HeadSucceeded =>
        /\ BodyFetched <=> isContentTypeAllowed(odHead[1].ContentType)
        /\ odGetInput # Nil <=> BodyFetched
        /\ (odGetInput # Nil /\ odHead[1].VersionId # Nil) =>
              odGetInput[1].VersionId = odHead[1].VersionId
        /\ (odAttrs.body # Nil /\ odHead[1].VersionId # Nil) =>
              /\ odAttrs.version_id = VersionIdOf(HeadVersion)
              /\ odAttrs.content_type = awsStringValue(odVersions[HeadVersion].ContentType)
              /\ odAttrs.body = Ptr(odVersions[HeadVersion].Body)
        /\ ~ isContentTypeAllowed(odHead[1].ContentType) => odAttrs.body = Nil
        /\ (odOp.pc = "done" /\ odOp.diags = "ok"
                /\ isContentTypeAllowed(odHead[1].ContentType)) => odAttrs.body # Nil

\* In a versioned bucket the object was overwritten, with another content
\* type, after HeadObject had answered: the read finished with the body and
\* the content type of the version HeadObject saw.
C19_Witness ==
    /\ HeadSucceeded
    /\ odOp.pc = "done" /\ odOp.diags = "ok"
    /\ odConfig.version_id = ""
    /\ Len(odVersions) = 2
    /\ odVersions[2].ContentType = Ptr("image/png")
    /\ odAttrs.version_id = "v1"
    /\ odAttrs.content_type = "text/plain"
    /\ odAttrs.body = Ptr(BodyOf(1))

====
